---- MODULE Spec2Model ----
(***************************************************************************)
(* Model of programmator's iteration control loop (src/src/loop.py), its   *)
(* safety gate (src/src/safety.py), the ticket model and store adapter     *)
(* (src/src/ticket_client.py) and the status parser                        *)
(* (src/src/response_parser.py).                                           *)
(*                                                                         *)
(* Python strings are sequences of one-character strings, so that prefix   *)
(* tests, stripping and pattern matching are computed, not assumed.        *)
(* Optional values (str | None) are sequences of length <= 1: None is <<>>  *)
(* and a present value v is <<v>>.                                          *)
(***************************************************************************)
EXTENDS Integers, Sequences, FiniteSets, TLC

VARIABLES
    pc,                \* position of the control thread inside Loop.run
    stop_requested,    \* Loop._stop_requested
    paused,            \* Loop._paused
    config,            \* Loop.config  (SafetyConfig)
    state,             \* Loop.state   (SafetyState)
    storeStatus,       \* ticket store: lifecycle status in the frontmatter
    storeBody,         \* ticket store: the lines of the ticket file after the frontmatter
    storeNotes,        \* ticket store: notes appended with `ticket add-note`
    ticket,            \* run(): local `ticket`
    notes,             \* run(): local `notes`
    all_files_changed, \* run(): local `all_files_changed`
    output,            \* run(): local `output`, the raw output of the last invocation
    result,            \* the LoopResult returned by run(), NoResult before
    invocations,       \* number of calls of Loop._invoke_claude so far
    stopDuringWait,    \* request_stop was called while run() slept in the pause loop
    recorded,          \* safety module alone: the record_iteration calls made so far
    checked,           \* safety module alone: the last check_safety call and its result
    base,              \* safety module alone: the SafetyState the calls started from
    ticketFile,        \* ticket module alone: the text of the ticket file, as lines
    called,            \* ticket module alone: the calls made so far, with their results
    snapshot           \* what on_state_change received last, None before the first call

vars == << pc, stop_requested, paused, config, state, storeStatus, storeBody,
           storeNotes, ticket, notes, all_files_changed, output, result,
           invocations, stopDuringWait, recorded, checked, base, ticketFile, called,
           snapshot >>

----------------------------------------------------------------------------
(* Bounds of the model *)

\* largest max_iterations a run is configured with
MaxIterations == 4

\* largest stagnation_limit a run is configured with
MaxStagnation == 3

\* largest counter value a directly constructed SafetyState carries
MaxCounter == 4

\* number of record_iteration calls applied to one SafetyState
MaxCalls == 4

\* number of record_iteration calls applied to a directly constructed SafetyState
MaxCallsConstructed == 1

\* largest number of lines after the frontmatter of a ticket text
MaxBodyLines == 3

\* largest number of phases of a directly constructed Ticket
MaxPhases == 3

\* number of update_phase calls applied to one ticket file
MaxUpdates == 2

\* largest number of entry lines of a status block in an output text
MaxEntries == 2

\* largest max_iterations of the runs checked for termination
MaxLiveIterations == 2

----------------------------------------------------------------------------
(* Strings *)

None == << >>

Some(v) == << v >>

S_open == << "o", "p", "e", "n" >>

S_in_progress == << "i", "n", "_", "p", "r", "o", "g", "r", "e", "s", "s" >>

S_closed == << "c", "l", "o", "s", "e", "d" >>

S_null == << "n", "u", "l", "l" >>

S_no_status_block == << "n", "o", "_", "s", "t", "a", "t", "u", "s", "_",
                        "b", "l", "o", "c", "k" >>

S_Timeout == << "T", "i", "m", "e", "o", "u", "t" >>

S_timed_out == << "C", "l", "a", "u", "d", "e", " ", "i", "n", "v", "o", "c", "a", "t", "i", "o", "n",
                  " ", "t", "i", "m", "e", "d", " ", "o", "u", "t" >>

S_CONTINUE == << "C", "O", "N", "T", "I", "N", "U", "E" >>

S_DONE == << "D", "O", "N", "E" >>

S_BLOCKED == << "B", "L", "O", "C", "K", "E", "D" >>

\* str.isspace for one character
IsSpace(c) == c \in { " ", "\t", "\r", "\n" }

RECURSIVE LStrip(_)
LStrip(s) == IF s # << >> /\ IsSpace(Head(s)) THEN LStrip(Tail(s)) ELSE s

RECURSIVE RStrip(_)
RStrip(s) ==
    IF s # << >> /\ IsSpace(s[Len(s)]) THEN RStrip(SubSeq(s, 1, Len(s) - 1)) ELSE s

\* str.strip()
Strip(s) == RStrip(LStrip(s))

\* str.startswith(prefix)
StartsWith(s, prefix) ==
    /\ Len(s) >= Len(prefix)
    /\ SubSeq(s, 1, Len(prefix)) = prefix

\* the text of s from position i on
From(s, i) == SubSeq(s, i, Len(s))

----------------------------------------------------------------------------
(* safety.py *)

\* the fixed consecutive-error threshold of check_safety
ErrorThreshold == 3

\* ExitReason; NoExit stands for check_safety's None
ExitReasons == { "complete", "max_iterations", "stagnation", "blocked", "user_interrupt" }

NoExit == "None"

\* SafetyState()
NewSafetyState ==
    [ iteration |-> 0,
      consecutive_no_changes |-> 0,
      last_error |-> None,
      consecutive_errors |-> 0,
      files_changed_history |-> << >> ]

\* Python truth value of a list or of a str
Truthy(s) == s # << >>

\* Python truth value of a str | None
TruthyOpt(o) == o # None /\ Truthy(o[1])

\* record_iteration with an iteration that reports an error left out of the
\* stagnation count
record_iteration_ErrorsNotStagnant(st, files_changed, error) ==
    [ iteration |-> st.iteration + 1,
      consecutive_no_changes |->
          IF Truthy(files_changed) THEN 0
          ELSE IF TruthyOpt(error) THEN st.consecutive_no_changes
          ELSE st.consecutive_no_changes + 1,
      last_error |-> IF TruthyOpt(error) THEN error ELSE None,
      consecutive_errors |->
          IF TruthyOpt(error)
          THEN IF error = st.last_error THEN st.consecutive_errors + 1 ELSE 1
          ELSE 0,
      files_changed_history |-> Append(st.files_changed_history, files_changed) ]

\* record_iteration with the stagnation counter reset only by an iteration
\* that changed files and reported no error
record_iteration_ResetNeedsNoError(st, files_changed, error) ==
    [ iteration |-> st.iteration + 1,
      consecutive_no_changes |->
          IF Truthy(files_changed) /\ ~TruthyOpt(error) THEN 0
          ELSE st.consecutive_no_changes + 1,
      last_error |-> IF TruthyOpt(error) THEN error ELSE None,
      consecutive_errors |->
          IF TruthyOpt(error)
          THEN IF error = st.last_error THEN st.consecutive_errors + 1 ELSE 1
          ELSE 0,
      files_changed_history |-> Append(st.files_changed_history, files_changed) ]

\* record_iteration without the comparison against last_error
record_iteration_NoCompare(st, files_changed, error) ==
    [ iteration |-> st.iteration + 1,
      consecutive_no_changes |->
          IF Truthy(files_changed) THEN 0 ELSE st.consecutive_no_changes + 1,
      last_error |-> IF TruthyOpt(error) THEN error ELSE None,
      consecutive_errors |-> IF TruthyOpt(error) THEN st.consecutive_errors + 1 ELSE 0,
      files_changed_history |-> Append(st.files_changed_history, files_changed) ]

\* record_iteration with an iteration that changed no file left uncounted
record_iteration_NoChangesNotCounted(st, files_changed, error) ==
    [ iteration |-> st.iteration + 1,
      consecutive_no_changes |->
          IF Truthy(files_changed) THEN 0 ELSE st.consecutive_no_changes,
      last_error |-> IF TruthyOpt(error) THEN error ELSE None,
      consecutive_errors |->
          IF TruthyOpt(error)
          THEN IF error = st.last_error THEN st.consecutive_errors + 1 ELSE 1
          ELSE 0,
      files_changed_history |-> Append(st.files_changed_history, files_changed) ]

\* record_iteration with the history extended only by iterations that
\* changed files
record_iteration_SkipsEmptyHistory(st, files_changed, error) ==
    [ iteration |-> st.iteration + 1,
      consecutive_no_changes |->
          IF Truthy(files_changed) THEN 0 ELSE st.consecutive_no_changes + 1,
      last_error |-> IF TruthyOpt(error) THEN error ELSE None,
      consecutive_errors |->
          IF TruthyOpt(error)
          THEN IF error = st.last_error THEN st.consecutive_errors + 1 ELSE 1
          ELSE 0,
      files_changed_history |->
          IF Truthy(files_changed)
          THEN Append(st.files_changed_history, files_changed)
          ELSE st.files_changed_history ]

\* SafetyState.record_iteration(files_changed, error)
record_iteration(st, files_changed, error) ==
    LET no_changes == IF Truthy(files_changed)
                      THEN 0
                      ELSE st.consecutive_no_changes + 1
        errors == IF TruthyOpt(error)
                  THEN IF error = st.last_error
                       THEN st.consecutive_errors + 1
                       ELSE 1
                  ELSE 0
        last == IF TruthyOpt(error) THEN error ELSE None
    IN  [ iteration |-> st.iteration + 1,
          consecutive_no_changes |-> no_changes,
          last_error |-> last,
          consecutive_errors |-> errors,
          files_changed_history |-> Append(st.files_changed_history, files_changed) ]

\* check_safety with `>` for `>=` in the max-iterations test
check_safety_OffByOne(cfg, st) ==
    IF st.iteration > cfg.max_iterations THEN "max_iterations"
    ELSE IF st.consecutive_no_changes >= cfg.stagnation_limit THEN "stagnation"
    ELSE IF st.consecutive_errors >= ErrorThreshold THEN "blocked"
    ELSE NoExit

\* check_safety with the stagnation test moved before the max-iterations test
check_safety_StagnationFirst(cfg, st) ==
    IF st.consecutive_no_changes >= cfg.stagnation_limit THEN "stagnation"
    ELSE IF st.iteration >= cfg.max_iterations THEN "max_iterations"
    ELSE IF st.consecutive_errors >= ErrorThreshold THEN "blocked"
    ELSE NoExit

\* check_safety(config, state)
check_safety(cfg, st) ==
    IF st.iteration >= cfg.max_iterations THEN "max_iterations"
    ELSE IF st.consecutive_no_changes >= cfg.stagnation_limit THEN "stagnation"
    ELSE IF st.consecutive_errors >= ErrorThreshold THEN "blocked"
    ELSE NoExit

----------------------------------------------------------------------------
(* ticket_client.py *)

N_A == << "A" >>

N_B == << "B" >>

N_AB == << "A", "B" >>

Box(c) == << "-", " ", "[", c, "]", " " >>

\* the checklist line "- [ ] name"
Unchecked(name) == Box(" ") \o name

\* the checklist line "- [x] name"
Checked(name) == Box("x") \o name

L_Marker == << "-", "-", "-" >>

L_StatusKey == << "s", "t", "a", "t", "u", "s", ":" >>

L_Heading == << "#", " " >>

\* current_phase returning the last phase that is not completed
current_phase_LastIncomplete(t) ==
    LET open == { i \in 1..Len(t.phases) : ~t.phases[i].completed }
    IN  IF open = {} THEN None
        ELSE Some(t.phases[CHOOSE i \in open : \A j \in open : i >= j])

\* Ticket.current_phase: the first phase that is not completed, or None
current_phase(t) ==
    LET open == { i \in 1..Len(t.phases) : ~t.phases[i].completed }
    IN  IF open = {} THEN None
        ELSE Some(t.phases[CHOOSE i \in open : \A j \in open : i <= j])

\* all_phases_complete that wants at least one phase
all_phases_complete_NeedsPhase(t) ==
    /\ t.phases # << >>
    /\ \A i \in 1..Len(t.phases) : t.phases[i].completed

\* Ticket.all_phases_complete
all_phases_complete(t) == \A i \in 1..Len(t.phases) : t.phases[i].completed

\* re.match(r"- \[([ x])\] (.+)", line)
PhaseMatch(line) ==
    /\ Len(line) >= 7
    /\ line[1] = "-" /\ line[2] = " " /\ line[3] = "["
    /\ line[4] \in { " ", "x" }
    /\ line[5] = "]" /\ line[6] = " "

\* line.split(":", 1)[1] for a line that holds a colon
RECURSIVE AfterColon(_)
AfterColon(s) ==
    IF s = << >> THEN << >>
    ELSE IF Head(s) = ":" THEN Tail(s)
    ELSE AfterColon(Tail(s))

\* content.strip().split("\n"), on the lines of content
RECURSIVE DropLeadingBlank(_)
DropLeadingBlank(lines) ==
    IF lines # << >> /\ Strip(Head(lines)) = << >>
    THEN DropLeadingBlank(Tail(lines))
    ELSE lines

RECURSIVE DropTrailingBlank(_)
DropTrailingBlank(lines) ==
    IF lines # << >> /\ Strip(lines[Len(lines)]) = << >>
    THEN DropTrailingBlank(SubSeq(lines, 1, Len(lines) - 1))
    ELSE lines

StripSplit(lines) ==
    LET core == DropTrailingBlank(DropLeadingBlank(lines))
    IN  IF core = << >> THEN << << >> >>
        ELSE [ i \in 1..Len(core) |->
                 LET l == IF i = 1 THEN LStrip(core[i]) ELSE core[i]
                 IN  IF i = Len(core) THEN RStrip(l) ELSE l ]

\* the loop body with every `---` line switching the frontmatter on or off
ParseLine_MarkerToggles(acc, line) ==
    IF Strip(line) = L_Marker
    THEN [ acc EXCEPT !.frontmatter_count = @ + 1,
                      !.in_frontmatter = ((acc.frontmatter_count + 1) % 2 = 1) ]
    ELSE IF acc.in_frontmatter
    THEN IF StartsWith(line, L_StatusKey)
         THEN [ acc EXCEPT !.status = Strip(AfterColon(line)) ]
         ELSE acc
    ELSE IF StartsWith(line, L_Heading)
    THEN [ acc EXCEPT !.title = Strip(From(line, 3)) ]
    ELSE LET withBody == [ acc EXCEPT !.body = Append(@, line) ]
         IN  IF PhaseMatch(line)
             THEN [ withBody EXCEPT !.phases =
                      Append(@, [ name |-> Strip(From(line, 7)),
                                  completed |-> (line[4] = "x") ]) ]
             ELSE withBody

\* one pass of the `for line in lines` loop of _parse_ticket
ParseLine(acc, line) ==
    IF Strip(line) = L_Marker
    THEN [ acc EXCEPT !.frontmatter_count = @ + 1,
                      !.in_frontmatter = (acc.frontmatter_count + 1 = 1) ]
    ELSE IF acc.in_frontmatter
    THEN IF StartsWith(line, L_StatusKey)
         THEN [ acc EXCEPT !.status = Strip(AfterColon(line)) ]
         ELSE acc
    ELSE IF StartsWith(line, L_Heading)
    THEN [ acc EXCEPT !.title = Strip(From(line, 3)) ]
    ELSE LET withBody == [ acc EXCEPT !.body = Append(@, line) ]
         IN  IF PhaseMatch(line)
             THEN [ withBody EXCEPT !.phases =
                      Append(@, [ name |-> Strip(From(line, 7)),
                                  completed |-> (line[4] = "x") ]) ]
             ELSE withBody

RECURSIVE ParseLines(_, _)
ParseLines(acc, lines) ==
    IF lines = << >> THEN acc
    ELSE ParseLines(ParseLine(acc, Head(lines)), Tail(lines))

\* TicketClient._parse_ticket(ticket_id, content)
parse_ticket(ticket_id, content) ==
    LET acc == ParseLines([ title |-> << >>, status |-> S_open, body |-> << >>,
                            phases |-> << >>, in_frontmatter |-> FALSE,
                            frontmatter_count |-> 0 ],
                          StripSplit(content))
    IN  [ id |-> ticket_id, title |-> acc.title, status |-> acc.status,
          body |-> acc.body, phases |-> acc.phases ]

\* re.sub(pattern, replacement, line) for a literal pattern: every
\* non-overlapping occurrence, left to right
RECURSIVE ReplaceAll(_, _, _)
ReplaceAll(s, pat, rep) ==
    IF s = << >> THEN << >>
    ELSE IF StartsWith(s, pat) THEN rep \o ReplaceAll(From(s, Len(pat) + 1), pat, rep)
    ELSE << Head(s) >> \o ReplaceAll(Tail(s), pat, rep)

\* TicketClient.update_phase: the new content of the ticket file
update_phase(content, phase_name, completed) ==
    LET checkbox == IF completed THEN "x" ELSE " "
        opposite == IF completed THEN " " ELSE "x"
        pattern == Box(opposite) \o phase_name
        replacement == Box(checkbox) \o phase_name
    IN  [ i \in 1..Len(content) |-> ReplaceAll(content[i], pattern, replacement) ]

\* the text `ticket show` prints: the frontmatter, then the rest of the file
show(status, body) ==
    << L_Marker, L_StatusKey \o << " " >> \o status, L_Marker >> \o body

\* TicketClient.get
get(ticket_id, status, body) == parse_ticket(ticket_id, show(status, body))

----------------------------------------------------------------------------
(* response_parser.py *)

(* The raw output of one invocation, as far as parse_response reads it:     *)
(* `block` says whether the sentinel block is absent, bare or fenced, and   *)
(* `doc` is what yaml.safe_load makes of the captured block: a decode       *)
(* failure ("error"), a value that is no mapping ("scalar") or a mapping    *)
(* from the keys present to YAML values.  A YAML value is null, a string    *)
(* or a list of strings; `v` holds its strings.                             *)

YNull == [ t |-> "null", v |-> << >> ]

YStr(chars) == [ t |-> "str", v |-> << chars >> ]

YList(items) == [ t |-> "list", v |-> items ]

YError == [ kind |-> "error", keys |-> {}, val |-> [ k \in {} |-> YNull ] ]

YScalar == [ kind |-> "scalar", keys |-> {}, val |-> [ k \in {} |-> YNull ] ]

YMap(m) == [ kind |-> "map", keys |-> DOMAIN m, val |-> m ]

\* dict.get(key, default)
DictGet(doc, key, default) == IF key \in doc.keys THEN doc.val[key] ELSE default

\* a str | None field read with data.get(key, default)
OptStr(y) == IF y.t = "null" THEN None ELSE Some(y.v[1])

\* the status conversion with a value that is no member taken as BLOCKED
StatusOf_UnknownIsBlocked(y) ==
    IF y = YStr(S_DONE) THEN "DONE"
    ELSE IF y = YStr(S_CONTINUE) THEN "CONTINUE"
    ELSE "BLOCKED"

\* Status(status_str), CONTINUE on ValueError
StatusOf(y) ==
    IF y = YStr(S_DONE) THEN "DONE"
    ELSE IF y = YStr(S_BLOCKED) THEN "BLOCKED"
    ELSE "CONTINUE"

\* parse_response with a bare string of files_changed taken as no list
parse_response_StringDropped(out) ==
    IF out.block = "absent" THEN None
    ELSE IF out.doc.kind # "map" THEN None
    ELSE LET data == out.doc
             raw_phase == DictGet(data, "phase_completed", YNull)
             phase == IF raw_phase.t = "null" \/ raw_phase = YStr(S_null)
                      THEN None
                      ELSE Some(raw_phase.v[1])
             raw_files == DictGet(data, "files_changed", YList(<< >>))
             files == IF raw_files.t = "null" THEN << >>
                      ELSE IF raw_files.t = "str" THEN << >>
                      ELSE raw_files.v
         IN  Some([ phase_completed |-> phase,
                    status |-> StatusOf(DictGet(data, "status", YStr(S_CONTINUE))),
                    files_changed |-> files,
                    summary |-> OptStr(DictGet(data, "summary", YStr(<< >>))),
                    error |-> OptStr(DictGet(data, "error", YNull)) ])

\* parse_response with the text "null" taken as a phase name
parse_response_NullTextIsName(out) ==
    IF out.block = "absent" THEN None
    ELSE IF out.doc.kind # "map" THEN None
    ELSE LET data == out.doc
             raw_phase == DictGet(data, "phase_completed", YNull)
             phase == IF raw_phase.t = "null"
                      THEN None
                      ELSE Some(raw_phase.v[1])
             raw_files == DictGet(data, "files_changed", YList(<< >>))
             files == IF raw_files.t = "null" THEN << >>
                      ELSE IF raw_files.t = "str" THEN << raw_files.v[1] >>
                      ELSE raw_files.v
         IN  Some([ phase_completed |-> phase,
                    status |-> StatusOf(DictGet(data, "status", YStr(S_CONTINUE))),
                    files_changed |-> files,
                    summary |-> OptStr(DictGet(data, "summary", YStr(<< >>))),
                    error |-> OptStr(DictGet(data, "error", YNull)) ])

\* parse_response(output): None, or Some(ProgrammatorStatus)
parse_response(out) ==
    IF out.block = "absent" THEN None
    ELSE IF out.doc.kind # "map" THEN None
    ELSE LET data == out.doc
             raw_phase == DictGet(data, "phase_completed", YNull)
             phase == IF raw_phase.t = "null" \/ raw_phase = YStr(S_null)
                      THEN None
                      ELSE Some(raw_phase.v[1])
             raw_files == DictGet(data, "files_changed", YList(<< >>))
             files == IF raw_files.t = "null" THEN << >>
                      ELSE IF raw_files.t = "str" THEN << raw_files.v[1] >>
                      ELSE raw_files.v
         IN  Some([ phase_completed |-> phase,
                    status |-> StatusOf(DictGet(data, "status", YStr(S_CONTINUE))),
                    files_changed |-> files,
                    summary |-> OptStr(DictGet(data, "summary", YStr(<< >>))),
                    error |-> OptStr(DictGet(data, "error", YNull)) ])

----------------------------------------------------------------------------
(* loop.py: the values a run works on *)

TicketId == << "t", "1" >>

F_a == << "a" >>

F_b == << "b" >>

E_X == << "X" >>

E_Y == << "Y" >>

S_summary == << "s" >>

S_None == << "N", "o", "n", "e" >>

L_Title == L_Heading \o << "T" >>

L_Prose == << "t", "e", "x", "t" >>

\* "- [ ]  B": two spaces between the checkbox and the name
L_SpacedB == Box(" ") \o << " " >> \o N_B

\* the ticket files a run starts on (the lines after the frontmatter)
InitialBodies ==
    { << L_Title, Checked(N_A), Unchecked(N_B) >>,
      << L_Title, Unchecked(N_A), L_SpacedB >>,
      << L_Title, L_Prose >> }

\* SafetyConfig of a run
LoopConfigs ==
    { [ max_iterations |-> m, stagnation_limit |-> s ] :
        m \in 0..MaxIterations, s \in { 1, MaxStagnation } }

\* a well-formed status block
Block(form, phase, status, files, error) ==
    [ block |-> form,
      doc |-> YMap([ phase_completed |-> phase, status |-> YStr(status),
                     files_changed |-> files, summary |-> YStr(S_summary),
                     error |-> error ]) ]

\* _invoke_claude's substitute output on subprocess.TimeoutExpired
TimeoutOutput ==
    [ Block("bare", YNull, S_BLOCKED, YList(<< >>), YStr(S_timed_out))
        EXCEPT !.doc.val.summary = YStr(S_Timeout) ]

\* the raw outputs an invocation returns in this model: no block, an
\* undecodable block, a completed phase, plain progress without changes, an
\* error with a change, DONE and BLOCKED
AgentOutputs ==
    { [ block |-> "absent", doc |-> YError ],
      [ block |-> "bare", doc |-> YError ],
      Block("fenced", YStr(N_B), S_CONTINUE, YList(<< F_a >>), YNull),
      Block("bare", YStr(S_null), S_CONTINUE, YNull, YNull),
      Block("bare", YNull, S_CONTINUE, YStr(F_a), YStr(E_X)),
      Block("bare", YNull, S_DONE, YList(<< F_a, F_b >>), YNull),
      Block("bare", YNull, S_BLOCKED, YList(<< >>), YStr(E_X)) }

NoResult == [ exit_reason |-> NoExit, iterations |-> 0, total_files_changed |-> << >> ]

\* LoopResult(exit_reason, iterations=self.state.iteration, total_files_changed)
LoopResult(reason, st, files) ==
    [ exit_reason |-> reason, iterations |-> st.iteration, total_files_changed |-> files ]

\* a note text: its "progress:" / "error:" tag (local notes carry none), the
\* sentence it is, the iteration number printed in it and the text put in
Note(tag, kind, iter, text) == [ tag |-> tag, kind |-> kind, iter |-> iter, text |-> text ]

\* an f-string's rendering of a str | None
Format(opt) == IF opt = None THEN S_None ELSE opt[1]

\* TicketClient.add_note
add_note(store_notes, note) == Append(store_notes, note)

NoCheck == [ op |-> "none", before |-> NewSafetyState, result |-> NoExit ]

----------------------------------------------------------------------------
(* loop.py: Loop.run *)

\* the top of a cycle with the safety gate evaluated before the completion check
TopOfCycle_GateFirst(cfg, st, tk) ==
    IF check_safety(cfg, st) # NoExit THEN check_safety(cfg, st)
    ELSE IF all_phases_complete(tk) THEN "complete"
    ELSE NoExit

\* the decision at the top of a cycle, on the ticket just fetched: "complete"
\* when all phases are complete, else the safety gate's reason, else NoExit
TopOfCycle(cfg, st, tk) ==
    IF all_phases_complete(tk) THEN "complete" ELSE check_safety(cfg, st)

\* the note the loop persists when it leaves at the top of a cycle
TopOfCycleNote(reason, st) ==
    IF reason = "complete"
    THEN Note("progress", "Completed all phases in", st.iteration, << >>)
    ELSE Note("error", "Safety exit after", st.iteration, << reason >>)

\* the note the loop persists when it leaves on a stop request
StopNote(st) == Note("progress", "Stopped by user after", st.iteration, << >>)

\* whether the report makes the loop toggle a phase: `if status.phase_completed`
Toggles(report) == TruthyOpt(report.phase_completed)

\* the ticket file after the report is applied
BodyAfterReport(body, report) ==
    IF Toggles(report) THEN update_phase(body, report.phase_completed[1], TRUE) ELSE body

\* the entry of a report written from its summary whether or not it names a phase
ReportNote_SummaryAlways(tag, st, report) ==
    Note(tag, "summary", st.iteration, Format(report.summary))

\* the entry the report adds to the note history, and to the store as "progress:"
ReportNote(tag, st, report) ==
    IF Toggles(report)
    THEN Note(tag, "Completed", st.iteration, report.phase_completed[1])
    ELSE Note(tag, "summary", st.iteration, Format(report.summary))

\* all_files_changed after the report is applied
FilesAfterReport(files, report) ==
    IF Truthy(report.files_changed) THEN files \o report.files_changed ELSE files

\* the end of the cycle with no note persisted for a BLOCKED report
FinalNotes_SilentBlocked(store_notes, st, report) ==
    IF report.status = "DONE"
    THEN add_note(store_notes, Note("progress", "Completed in", st.iteration, << >>))
    ELSE store_notes

\* the notes the end of the cycle persists for a DONE or BLOCKED report
FinalNotes(store_notes, st, report) ==
    IF report.status = "DONE"
    THEN add_note(store_notes, Note("progress", "Completed in", st.iteration, << >>))
    ELSE IF report.status = "BLOCKED"
    THEN add_note(store_notes, Note("error", "BLOCKED", st.iteration, Format(report.error)))
    ELSE store_notes

\* the end of the cycle closing the ticket on BLOCKED as on DONE
StatusAfterReport_ClosesBlocked(status, report) ==
    IF report.status \in { "DONE", "BLOCKED" } THEN S_closed ELSE status

\* the lifecycle status after the end of the cycle
StatusAfterReport(status, report) ==
    IF report.status = "DONE" THEN S_closed ELSE status

\* the exit the report causes at the end of the cycle, NoExit to loop on
ReportExit(report) ==
    IF report.status = "DONE" THEN "complete"
    ELSE IF report.status = "BLOCKED" THEN "blocked"
    ELSE NoExit

\* what _notify_state_change hands to on_state_change: self.state, the ticket
\* and the changed-files list it was called with
notify_state_change(st, tk, files_changed) ==
    Some([ state |-> st, ticket |-> tk, files_changed |-> files_changed ])

LoopInit ==
    /\ pc = "start"
    /\ stop_requested = FALSE
    /\ paused = FALSE
    /\ config \in LoopConfigs
    /\ state = NewSafetyState
    /\ storeStatus = S_open
    /\ storeBody \in InitialBodies
    /\ storeNotes = << >>
    /\ ticket = parse_ticket(TicketId, << >>)
    /\ notes = << >>
    /\ all_files_changed = << >>
    /\ output = [ block |-> "absent", doc |-> YError ]
    /\ result = NoResult
    /\ invocations = 0
    /\ snapshot = None
    /\ stopDuringWait = FALSE
    /\ recorded = << >>
    /\ checked = NoCheck
    /\ base = NewSafetyState
    /\ ticketFile = << >>
    /\ called = << >>

\* Loop.request_stop, called from another thread
RequestStop ==
    /\ pc # "done"
    /\ ~stop_requested
    /\ stop_requested' = TRUE
    /\ stopDuringWait' = (pc = "sleep")
    /\ UNCHANGED << pc, paused, config, state, storeStatus, storeBody, storeNotes,
                    ticket, notes, all_files_changed, output, result, invocations,
                    recorded, checked, base,
                    ticketFile, called, snapshot >>

\* Loop.toggle_pause, called from another thread
TogglePause ==
    /\ pc # "done"
    /\ paused' = ~paused
    /\ UNCHANGED << pc, stop_requested, config, state, storeStatus, storeBody,
                    storeNotes, ticket, notes, all_files_changed, output, result,
                    invocations, stopDuringWait, recorded, checked, base,
                    ticketFile, called, snapshot >>

\* run(): the first fetch and set_status("in_progress")
RunStart ==
    /\ pc = "start"
    /\ ticket' = get(TicketId, storeStatus, storeBody)
    /\ storeStatus' = S_in_progress
    /\ snapshot' = notify_state_change(state, ticket', all_files_changed)
    /\ pc' = "while"
    /\ UNCHANGED << stop_requested, paused, config, state, storeBody, storeNotes,
                    notes, all_files_changed, output, result, invocations,
                    stopDuringWait, recorded, checked, base,
                    ticketFile, called >>

\* `while not self._stop_requested`, and the code after the loop
WhileCheck ==
    /\ pc = "while"
    /\ IF stop_requested
       THEN /\ storeNotes' = add_note(storeNotes, StopNote(state))
            /\ result' = LoopResult("user_interrupt", state, all_files_changed)
            /\ pc' = "done"
       ELSE /\ pc' = "pause"
            /\ UNCHANGED << storeNotes, result >>
    /\ UNCHANGED << stop_requested, paused, config, state, storeStatus, storeBody,
                    ticket, notes, all_files_changed, output, invocations,
                    stopDuringWait, recorded, checked, base,
                    ticketFile, called, snapshot >>

\* `while self._paused and not self._stop_requested`: the wait goes on
PauseWait ==
    /\ pc = "pause"
    /\ paused /\ ~stop_requested
    /\ pc' = "sleep"
    /\ UNCHANGED << stop_requested, paused, config, state, storeStatus, storeBody,
                    storeNotes, ticket, notes, all_files_changed, output, result,
                    invocations, stopDuringWait, recorded, checked, base,
                    ticketFile, called, snapshot >>

\* time.sleep(0.1) returns
Sleep ==
    /\ pc = "sleep"
    /\ pc' = "pause"
    /\ UNCHANGED << stop_requested, paused, config, state, storeStatus, storeBody,
                    storeNotes, ticket, notes, all_files_changed, output, result,
                    invocations, stopDuringWait, recorded, checked, base,
                    ticketFile, called, snapshot >>

\* the start of a cycle with the pause flag not consulted
CycleTop_IgnoresPause ==
    /\ pc = "pause"
    /\ LET tk == get(TicketId, storeStatus, storeBody)
           reason == TopOfCycle(config, state, tk)
       IN  /\ ticket' = tk
           /\ IF reason = NoExit
              THEN /\ pc' = "invoke"
                   /\ invocations' = invocations + 1
                   /\ UNCHANGED << storeStatus, storeNotes, result >>
              ELSE /\ storeStatus' = IF reason = "complete" THEN S_closed ELSE storeStatus
                   /\ storeNotes' = add_note(storeNotes, TopOfCycleNote(reason, state))
                   /\ result' = LoopResult(reason, state, all_files_changed)
                   /\ pc' = "done"
                   /\ UNCHANGED invocations
    /\ UNCHANGED << stop_requested, paused, config, state, storeBody, notes,
                    all_files_changed, output, stopDuringWait, recorded, checked, base,
                    ticketFile, called, snapshot >>

\* the pause loop sleeping on although the flag is clear or a stop is requested
CycleTop_SleepsOn ==
    /\ pc = "pause"
    /\ ~(paused /\ ~stop_requested)
    /\ pc' = "sleep"
    /\ UNCHANGED << stop_requested, paused, config, state, storeStatus, storeBody,
                    storeNotes, ticket, notes, all_files_changed, output, result,
                    invocations, stopDuringWait, recorded, checked, base,
                    ticketFile, called, snapshot >>

\* the pause loop is left (or not entered) and the cycle begins: re-fetch,
\* completion check, safety gate, then the prompt is built and the agent
\* process started
CycleTop ==
    /\ pc = "pause"
    /\ ~(paused /\ ~stop_requested)
    /\ LET tk == get(TicketId, storeStatus, storeBody)
           reason == TopOfCycle(config, state, tk)
       IN  /\ ticket' = tk
           /\ IF reason = NoExit
              THEN /\ pc' = "invoke"
                   /\ invocations' = invocations + 1
                   /\ UNCHANGED << storeStatus, storeNotes, result >>
              ELSE /\ storeStatus' = IF reason = "complete" THEN S_closed ELSE storeStatus
                   /\ storeNotes' = add_note(storeNotes, TopOfCycleNote(reason, state))
                   /\ result' = LoopResult(reason, state, all_files_changed)
                   /\ pc' = "done"
                   /\ UNCHANGED invocations
    /\ UNCHANGED << stop_requested, paused, config, state, storeBody, notes,
                    all_files_changed, output, stopDuringWait, recorded, checked, base,
                    ticketFile, called, snapshot >>

\* the running agent edits the ticket file itself: it checks one box
AgentEditsTicket ==
    /\ pc = "invoke"
    /\ \E i \in 1..Len(storeBody) :
         /\ PhaseMatch(storeBody[i])
         /\ storeBody[i][4] = " "
         /\ storeBody' = [ storeBody EXCEPT ![i][4] = "x" ]
    /\ UNCHANGED << pc, stop_requested, paused, config, state, storeStatus,
                    storeNotes, ticket, notes, all_files_changed, output, result,
                    invocations, stopDuringWait, recorded, checked, base,
                    ticketFile, called, snapshot >>

\* the rest of the cycle, from `status = parse_response(output)` on
Apply(out) ==
    LET status == parse_response(out)
    IN  /\ output' = out
        /\ IF status = None
           THEN /\ state' = record_iteration(state, << >>, Some(S_no_status_block))
                /\ snapshot' = notify_state_change(state', ticket, all_files_changed)
                /\ notes' = Append(notes, Note("", "No status block returned",
                                               state'.iteration, << >>))
                /\ pc' = "while"
                /\ UNCHANGED << storeStatus, storeBody, storeNotes,
                                all_files_changed, result >>
           ELSE LET report == status[1]
                IN  /\ storeBody' = BodyAfterReport(storeBody, report)
                    /\ notes' = Append(notes, ReportNote("", state, report))
                    /\ all_files_changed' = FilesAfterReport(all_files_changed, report)
                    /\ state' = record_iteration(state, report.files_changed, report.error)
                    /\ snapshot' = notify_state_change(state', ticket, all_files_changed')
                    /\ storeStatus' = StatusAfterReport(storeStatus, report)
                    /\ storeNotes' =
                         FinalNotes(add_note(storeNotes, ReportNote("progress", state, report)),
                                    state', report)
                    /\ IF ReportExit(report) = NoExit
                       THEN /\ pc' = "while"
                            /\ UNCHANGED result
                       ELSE /\ pc' = "done"
                            /\ result' = LoopResult(ReportExit(report), state',
                                                    all_files_changed')
        /\ UNCHANGED << stop_requested, paused, config, ticket, invocations,
                        stopDuringWait, recorded, checked, base,
                        ticketFile, called >>

\* _invoke_claude returns the agent's output
AgentReturns ==
    /\ pc = "invoke"
    /\ \E out \in AgentOutputs : Apply(out)

\* _invoke_claude catches subprocess.TimeoutExpired
AgentTimeout ==
    /\ pc = "invoke"
    /\ Apply(TimeoutOutput)

\* the agent process neither closes its output stream nor exits: the read
\* loop `for line in process.stdout` of _process_text_output /
\* _process_streaming_output blocks without a timeout, and
\* process.wait(timeout=...), which comes after it, is never reached
AgentHangs ==
    /\ pc = "invoke"
    /\ pc' = "hung"
    /\ UNCHANGED << stop_requested, paused, config, state, storeStatus, storeBody,
                    storeNotes, ticket, notes, all_files_changed, output, result,
                    invocations, stopDuringWait, recorded, checked, base,
                    ticketFile, called, snapshot >>

Next ==
    \/ RequestStop
    \/ TogglePause
    \/ RunStart
    \/ WhileCheck
    \/ PauseWait
    \/ Sleep
    \/ CycleTop
    \/ AgentEditsTicket
    \/ AgentReturns
    \/ AgentTimeout
    \/ AgentHangs

Spec == LoopInit /\ [][Next]_vars

----------------------------------------------------------------------------
(* Loop.run with an agent that may report, as its own error text, the text *)
(* the loop records for a missing report                                    *)

\* a CONTINUE report with a changed file and error: no_status_block
SentinelOutput ==
    Block("bare", YNull, S_CONTINUE, YList(<< F_a >>), YStr(S_no_status_block))

\* _invoke_claude returns that report
AgentReportsSentinel ==
    /\ pc = "invoke"
    /\ Apply(SentinelOutput)

SentinelInit ==
    /\ LoopInit
    /\ config = [ max_iterations |-> MaxIterations, stagnation_limit |-> MaxStagnation ]
    /\ storeBody = << L_Title, Unchecked(N_A), L_SpacedB >>

SentinelNext == Next \/ AgentReportsSentinel

SpecSentinel == SentinelInit /\ [][SentinelNext]_vars

----------------------------------------------------------------------------
(* Loop.run with a ticket store whose commands may fail: `ticket show`,     *)
(* `ticket add-note` and `ticket status` run with check=True, so a non-zero *)
(* exit raises CalledProcessError in the call; run() catches nothing, and   *)
(* the exception leaves it at the call (pc = "raised").  A failed command   *)
(* has written nothing.  `called` records the call that failed.             *)

\* the record of a failed store call: its command and, for add-note, the note
Failed(op, note) == << [ op |-> op, note |-> note ] >>

FailingInit ==
    /\ LoopInit
    /\ config = [ max_iterations |-> 2, stagnation_limit |-> MaxStagnation ]

\* run() before the loop with a failing get whose exception is swallowed
RunStartFails_Swallowed ==
    /\ pc = "start"
    /\ called' = Failed("show", None)
    /\ pc' = "while"
    /\ UNCHANGED << stop_requested, paused, config, state, storeStatus, storeBody,
                    storeNotes, ticket, notes, all_files_changed, output, result,
                    invocations, stopDuringWait, recorded, checked, base, ticketFile, snapshot >>

\* run() before the loop: get fails, or set_status("in_progress") fails
RunStartFails ==
    /\ pc = "start"
    /\ \/ /\ called' = Failed("show", None)
          /\ UNCHANGED ticket
       \/ /\ ticket' = get(TicketId, storeStatus, storeBody)
          /\ called' = Failed("status", None)
    /\ pc' = "raised"
    /\ UNCHANGED << stop_requested, paused, config, state, storeStatus, storeBody,
                    storeNotes, notes, all_files_changed, output, result,
                    invocations, stopDuringWait, recorded, checked, base, ticketFile, snapshot >>

\* the code after the loop: add_note fails
StopExitFails ==
    /\ pc = "while"
    /\ stop_requested
    /\ called' = Failed("add-note", Some(StopNote(state)))
    /\ pc' = "raised"
    /\ UNCHANGED << stop_requested, paused, config, state, storeStatus, storeBody,
                    storeNotes, ticket, notes, all_files_changed, output, result,
                    invocations, stopDuringWait, recorded, checked, base, ticketFile, snapshot >>

(* the start of a cycle: get fails; or, on a complete ticket,               *)
(* set_status("closed") fails or the add_note after it fails; or the        *)
(* add_note of a safety exit fails                                          *)
CycleTopFails ==
    /\ pc = "pause"
    /\ ~(paused /\ ~stop_requested)
    /\ LET tk == get(TicketId, storeStatus, storeBody)
           reason == TopOfCycle(config, state, tk)
       IN  \/ /\ called' = Failed("show", None)
              /\ UNCHANGED << ticket, storeStatus >>
           \/ /\ reason = "complete"
              /\ ticket' = tk
              /\ called' = Failed("status", None)
              /\ UNCHANGED storeStatus
           \/ /\ reason # NoExit
              /\ ticket' = tk
              /\ storeStatus' = IF reason = "complete" THEN S_closed ELSE storeStatus
              /\ called' = Failed("add-note", Some(TopOfCycleNote(reason, state)))
    /\ pc' = "raised"
    /\ UNCHANGED << stop_requested, paused, config, state, storeBody, storeNotes,
                    notes, all_files_changed, output, result, invocations,
                    stopDuringWait, recorded, checked, base, ticketFile, snapshot >>

(* the rest of a cycle on a report: the add_note of the progress note       *)
(* fails, after update_phase and the local note; or, the report applied and *)
(* recorded, set_status("closed") of a DONE report fails, or the add_note   *)
(* of a DONE or BLOCKED report fails                                        *)
ReportFails ==
    /\ pc = "invoke"
    /\ \E out \in AgentOutputs \cup { TimeoutOutput } :
         /\ parse_response(out) # None
         /\ output' = out
         /\ LET report == parse_response(out)[1]
                recorded_state == record_iteration(state, report.files_changed,
                                                   report.error)
                final == FinalNotes(<< >>, recorded_state, report)
            IN  /\ storeBody' = BodyAfterReport(storeBody, report)
                /\ notes' = Append(notes, ReportNote("", state, report))
                /\ \/ /\ called' = Failed("add-note",
                                          Some(ReportNote("progress", state, report)))
                      /\ UNCHANGED << storeNotes, all_files_changed, state, storeStatus,
                                      snapshot >>
                   \/ /\ ReportExit(report) # NoExit
                      /\ storeNotes' = add_note(storeNotes,
                                                ReportNote("progress", state, report))
                      /\ all_files_changed' = FilesAfterReport(all_files_changed, report)
                      /\ state' = recorded_state
                      /\ snapshot' = notify_state_change(state', ticket, all_files_changed')
                      /\ \/ /\ report.status = "DONE"
                            /\ called' = Failed("status", None)
                            /\ UNCHANGED storeStatus
                         \/ /\ storeStatus' = StatusAfterReport(storeStatus, report)
                            /\ called' = Failed("add-note", Some(final[1]))
    /\ pc' = "raised"
    /\ UNCHANGED << stop_requested, paused, config, ticket, result, invocations,
                    stopDuringWait, recorded, checked, base, ticketFile >>

FailingNext ==
    \/ Next
    \/ RunStartFails
    \/ StopExitFails
    \/ CycleTopFails
    \/ ReportFails

SpecFailing == FailingInit /\ [][FailingNext]_vars

----------------------------------------------------------------------------
(* Loop.run as a fair process: the thread that runs run() keeps taking its  *)
(* steps, time.sleep returns, and every invocation of the agent returns or  *)
(* times out (the agent never hangs).  The threads that call request_stop   *)
(* and toggle_pause, and the agent's own edits of the ticket file, are      *)
(* under no obligation.  The two conditions are WF_vars(RunStep) and        *)
(* WF_vars(InvocationEnds) with the enabling conditions written out.        *)

\* a step of the thread that runs run(), outside _invoke_claude
RunStep == RunStart \/ WhileCheck \/ PauseWait \/ Sleep \/ CycleTop

(* ENABLED <<RunStep>>_vars, written out: RunStart is enabled at "start",   *)
(* WhileCheck at "while", Sleep at "sleep", and at "pause" PauseWait while  *)
(* the pause is held and CycleTop when it is not; each of them moves pc     *)
RunStepEnabled == pc \in { "start", "while", "pause", "sleep" }

\* the invocation ends: _invoke_claude returns the output or the timeout text
InvocationEnds == AgentReturns \/ AgentTimeout

\* ENABLED <<InvocationEnds>>_vars, written out
InvocationEndsEnabled == pc = "invoke"

LiveInit == LoopInit /\ config.max_iterations <= MaxLiveIterations

LiveNext ==
    \/ RequestStop
    \/ TogglePause
    \/ RunStart
    \/ WhileCheck
    \/ PauseWait
    \/ Sleep
    \/ CycleTop
    \/ AgentEditsTicket
    \/ AgentReturns
    \/ AgentTimeout

SpecLive ==
    /\ LiveInit
    /\ [][LiveNext]_vars
    /\ ([]<>(~RunStepEnabled) \/ []<><<RunStep>>_vars)
    /\ ([]<>(~InvocationEndsEnabled) \/ []<><<InvocationEnds>>_vars)

----------------------------------------------------------------------------
(* Loop.run on the reports parse_response normalizes: status blocks whose   *)
(* keys are present or absent and whose values are null, a string or a list *)

ReportKeys == { "phase_completed", "status", "files_changed", "summary", "error" }

\* the keys a block holds: all, all but one, or `status` alone
KeySets == { ReportKeys } \cup { ReportKeys \ { k } : k \in ReportKeys } \cup { { "status" } }

\* the values of the keys
FullDocs ==
    [ phase_completed : { YNull, YStr(S_null), YStr(N_B) },
      status : { YStr(S_CONTINUE) },
      files_changed : { YNull, YStr(F_a), YList(<< >>), YList(<< F_b, F_a >>) },
      summary : { YStr(S_summary) },
      error : { YNull } ]

\* "done": no value of Status
S_done == << "d", "o", "n", "e" >>

\* blocks whose status is no value of Status: another text, or null
StatusDocs ==
    [ phase_completed : { YNull },
      status : { YStr(S_done), YNull },
      files_changed : { YList(<< F_a >>) },
      summary : { YStr(S_summary) },
      error : { YNull } ]

\* the output holding a bare block with the keys K of r
ReportOf(K, r) == [ block |-> "bare", doc |-> YMap([ k \in K |-> r[k] ]) ]

\* a ticket with a phase named "null"
NullPhaseBody == << L_Title, Unchecked(S_null), Unchecked(N_B) >>

ReportsInit ==
    /\ pc = "start"
    /\ stop_requested = FALSE
    /\ paused = FALSE
    /\ config = [ max_iterations |-> 2, stagnation_limit |-> MaxStagnation ]
    /\ state = NewSafetyState
    /\ storeStatus = S_open
    /\ storeBody = NullPhaseBody
    /\ storeNotes = << >>
    /\ ticket = parse_ticket(TicketId, << >>)
    /\ notes = << >>
    /\ all_files_changed = << >>
    /\ output = [ block |-> "absent", doc |-> YError ]
    /\ result = NoResult
    /\ invocations = 0
    /\ snapshot = None
    /\ stopDuringWait = FALSE
    /\ recorded = << >>
    /\ checked = NoCheck
    /\ base = NewSafetyState
    /\ ticketFile = << >>
    /\ called = << >>

\* _invoke_claude returns one of these outputs
AgentReports ==
    /\ pc = "invoke"
    /\ \E K \in KeySets, r \in FullDocs \cup StatusDocs : Apply(ReportOf(K, r))

ReportsNext == Next \/ AgentReports

SpecReports == ReportsInit /\ [][ReportsNext]_vars

----------------------------------------------------------------------------
(* safety.py on its own: SafetyState objects, constructed directly or       *)
(* fresh, with record_iteration and check_safety called on them             *)

\* SafetyConfig(): max_iterations
DefaultMaxIterations == 50

\* SafetyConfig(): stagnation_limit
DefaultStagnationLimit == 3

\* SafetyConfig()
DefaultConfig ==
    [ max_iterations |-> DefaultMaxIterations, stagnation_limit |-> DefaultStagnationLimit ]

SafetyConfigs ==
    { [ max_iterations |-> m, stagnation_limit |-> s ] :
        m \in 0..MaxCounter, s \in 0..MaxCounter } \cup { DefaultConfig }

\* SafetyState(iteration=.., consecutive_no_changes=.., last_error=.., consecutive_errors=..)
ConstructedStates ==
    { [ iteration |-> i, consecutive_no_changes |-> n, last_error |-> l,
        consecutive_errors |-> e, files_changed_history |-> << >> ] :
        i \in 0..MaxCounter, n \in 0..MaxCounter, e \in 0..MaxCounter,
        l \in { None, Some(E_X) } }

\* the arguments record_iteration is called with: << files_changed, error >>
RecordInputs ==
    { << << >>, None >>,
      << << F_a >>, None >>,
      << << >>, Some(<< >>) >>,
      << << >>, Some(E_X) >>,
      << << F_a, F_b >>, Some(E_X) >>,
      << << F_a >>, Some(E_Y) >>,
      << << >>, Some(S_no_status_block) >> }

SafetyInit ==
    /\ pc = "safety"
    /\ config \in SafetyConfigs
    /\ state \in ConstructedStates
    /\ base = state
    /\ recorded = << >>
    /\ checked = NoCheck
    /\ stop_requested = FALSE
    /\ paused = FALSE
    /\ storeStatus = S_open
    /\ storeBody = << >>
    /\ storeNotes = << >>
    /\ ticket = parse_ticket(TicketId, << >>)
    /\ notes = << >>
    /\ all_files_changed = << >>
    /\ output = [ block |-> "absent", doc |-> YError ]
    /\ result = NoResult
    /\ invocations = 0
    /\ snapshot = None
    /\ stopDuringWait = FALSE
    /\ ticketFile = << >>
    /\ called = << >>

\* state.record_iteration(files_changed, error); sequences of calls are run
\* under the default configuration
CallRecord ==
    /\ pc = "safety"
    /\ config = DefaultConfig
    /\ Len(recorded) < (IF base = NewSafetyState THEN MaxCalls ELSE MaxCallsConstructed)
    /\ \E in \in RecordInputs :
         /\ state' = record_iteration(state, in[1], in[2])
         /\ recorded' = Append(recorded, [ files |-> in[1], error |-> in[2], before |-> state ])
    /\ UNCHANGED << pc, stop_requested, paused, config, storeStatus, storeBody,
                    storeNotes, ticket, notes, all_files_changed, output, result,
                    invocations, stopDuringWait, checked, base,
                    ticketFile, called, snapshot >>

\* check_safety(config, state)
CallCheck ==
    /\ pc = "safety"
    /\ checked' = [ op |-> "check_safety", before |-> state,
                    result |-> check_safety(config, state) ]
    /\ UNCHANGED << pc, stop_requested, paused, config, state, storeStatus, storeBody,
                    storeNotes, ticket, notes, all_files_changed, output, result,
                    invocations, stopDuringWait, recorded, base,
                    ticketFile, called, snapshot >>

SafetyNext == CallRecord \/ CallCheck

SpecSafety == SafetyInit /\ [][SafetyNext]_vars

----------------------------------------------------------------------------
(* ticket_client.py on its own: ticket texts parsed with _parse_ticket,     *)
(* Ticket objects constructed directly, and their properties read           *)

L_StatusInProgress == L_StatusKey \o << " " >> \o S_in_progress

\* "status:closed"
L_StatusClosed == L_StatusKey \o S_closed

L_Id == << "i", "d", ":", " ", "t" >>

L_Blank == << >>

\* the lines a ticket text starts with: no frontmatter, an empty one, one
\* with a status line, one with two status lines around a checklist line,
\* and one that is never closed
Frontmatters ==
    { << >>,
      << L_Marker, L_Marker >>,
      << L_Marker, L_Id, L_StatusInProgress, L_Marker >>,
      << L_Marker, L_StatusInProgress, Unchecked(N_A), L_StatusClosed, L_Marker >>,
      << L_Marker, L_StatusInProgress >> }

\* "# U": a heading line other than L_Title
L_Section == L_Heading \o << "U" >>

\* the lines that follow it
BodyLines ==
    { L_Title, L_Section, L_Prose, L_Blank, L_Marker, L_StatusClosed,
      Unchecked(N_A), Checked(N_A), Checked(N_B), L_SpacedB }

TicketTexts ==
    { f \o b : f \in Frontmatters,
                b \in UNION { [ 1..n -> BodyLines ] : n \in 0..MaxBodyLines } }

\* Ticket(id=.., title=.., status=.., body=.., phases=[Phase(..), ..])
ConstructedTickets ==
    { [ id |-> TicketId, title |-> << "T" >>, status |-> S_open, body |-> << >>,
        phases |-> ph ] :
        ph \in UNION { [ 1..n -> [ name : { N_A, N_B }, completed : BOOLEAN ] ] :
                         n \in 0..MaxPhases } }

TicketInit ==
    /\ pc = "ticket"
    /\ \/ /\ ticketFile \in TicketTexts
          /\ ticket = parse_ticket(TicketId, << >>)
       \/ /\ ticketFile = << >>
          /\ ticket \in ConstructedTickets
    /\ called = << >>
    /\ config = DefaultConfig
    /\ state = NewSafetyState
    /\ base = NewSafetyState
    /\ recorded = << >>
    /\ checked = NoCheck
    /\ stop_requested = FALSE
    /\ paused = FALSE
    /\ storeStatus = S_open
    /\ storeBody = << >>
    /\ storeNotes = << >>
    /\ notes = << >>
    /\ all_files_changed = << >>
    /\ output = [ block |-> "absent", doc |-> YError ]
    /\ result = NoResult
    /\ invocations = 0
    /\ snapshot = None
    /\ stopDuringWait = FALSE

\* client._parse_ticket(ticket_id, content)
CallParseTicket ==
    /\ pc = "ticket"
    /\ called = << >>
    /\ ticket' = parse_ticket(TicketId, ticketFile)
    /\ called' = << [ op |-> "_parse_ticket", of |-> ticket' ] >>
    /\ UNCHANGED << pc, stop_requested, paused, config, state, storeStatus, storeBody,
                    storeNotes, notes, all_files_changed, output, result, invocations,
                    stopDuringWait, recorded, checked, base, ticketFile, snapshot >>

\* ticket.current_phase and ticket.all_phases_complete are read
CallProperties ==
    /\ pc = "ticket"
    /\ \A k \in 1..Len(called) : called[k].op # "properties"
    /\ called' = Append(called, [ op |-> "properties", of |-> ticket,
                                  current_phase |-> current_phase(ticket),
                                  all_phases_complete |-> all_phases_complete(ticket) ])
    /\ UNCHANGED << pc, stop_requested, paused, config, state, storeStatus, storeBody,
                    storeNotes, ticket, notes, all_files_changed, output, result,
                    invocations, stopDuringWait, recorded, checked, base, ticketFile, snapshot >>

TicketNext == CallParseTicket \/ CallProperties

SpecTicket == TicketInit /\ [][TicketNext]_vars

----------------------------------------------------------------------------
(* ticket_client.py on its own: update_phase called on ticket files         *)

\* the checklist and prose lines of the stored tickets
StoreLines ==
    { L_Prose, Unchecked(N_A), Checked(N_A), Unchecked(N_B), Unchecked(N_AB) }

\* the ticket files: a frontmatter, a heading and up to MaxBodyLines lines
StoreTexts ==
    { << L_Marker, L_StatusInProgress, L_Marker, L_Title >> \o b :
        b \in UNION { [ 1..n -> StoreLines ] : n \in 1..MaxBodyLines } }

\* the phase names update_phase is called with
UpdateNames == { N_A, N_B, N_AB }

StoreInit ==
    /\ pc = "store"
    /\ ticketFile \in StoreTexts
    /\ ticket = parse_ticket(TicketId, << >>)
    /\ called = << >>
    /\ config = DefaultConfig
    /\ state = NewSafetyState
    /\ base = NewSafetyState
    /\ recorded = << >>
    /\ checked = NoCheck
    /\ stop_requested = FALSE
    /\ paused = FALSE
    /\ storeStatus = S_open
    /\ storeBody = << >>
    /\ storeNotes = << >>
    /\ notes = << >>
    /\ all_files_changed = << >>
    /\ output = [ block |-> "absent", doc |-> YError ]
    /\ result = NoResult
    /\ invocations = 0
    /\ snapshot = None
    /\ stopDuringWait = FALSE

\* client.update_phase(ticket_id, phase_name, completed)
CallUpdatePhase ==
    /\ pc = "store"
    /\ Len(called) < MaxUpdates
    /\ \E name \in UpdateNames, completed \in BOOLEAN :
         /\ ticketFile' = update_phase(ticketFile, name, completed)
         /\ called' = Append(called, [ op |-> "update_phase", name |-> name,
                                       completed |-> completed, before |-> ticketFile ])
    /\ UNCHANGED << pc, stop_requested, paused, config, state, storeStatus, storeBody,
                    storeNotes, ticket, notes, all_files_changed, output, result,
                    invocations, stopDuringWait, recorded, checked, base, snapshot >>

\* client.get(ticket_id) on the file as it is now
CallGet ==
    /\ pc = "store"
    /\ ticket' = parse_ticket(TicketId, ticketFile)
    /\ UNCHANGED << pc, stop_requested, paused, config, state, storeStatus, storeBody,
                    storeNotes, notes, all_files_changed, output, result, invocations,
                    stopDuringWait, recorded, checked, base, ticketFile, called, snapshot >>

StoreNext == CallUpdatePhase \/ CallGet

SpecStore == StoreInit /\ [][StoreNext]_vars

----------------------------------------------------------------------------
(* response_parser.py on the text of an output: the two patterns of         *)
(* parse_response searched in a text of lines, and the captured lines read  *)
(* as YAML.  A text is a sequence of lines, each ended by a newline.        *)

\* "PROGRAMMATOR_STATUS:"
S_Sentinel == << "P", "R", "O", "G", "R", "A", "M", "M", "A", "T", "O", "R", "_",
                 "S", "T", "A", "T", "U", "S", ":" >>

(* the fence of a code block: three grave accents.  The module's strings   *)
(* cannot hold that character, so "^" stands for it; no other text of the  *)
(* model holds a "^".                                                       *)
L_Fence == << "^", "^", "^" >>

\* the keys parse_response reads, as they are written in a block
KeyText ==
    [ phase_completed |-> << "p", "h", "a", "s", "e", "_", "c", "o", "m", "p", "l",
                             "e", "t", "e", "d" >>,
      status |-> << "s", "t", "a", "t", "u", "s" >>,
      summary |-> << "s", "u", "m", "m", "a", "r", "y" >> ]

\* the text p stands in s from place i on
Occurs(s, i, p) == i + Len(p) - 1 <= Len(s) /\ SubSeq(s, i, i + Len(p) - 1) = p

\* \s* up to the end of a line
IsBlankLine(l) == \A i \in 1..Len(l) : IsSpace(l[i])

\* [ \t]+.+ : a line that starts with a space or a tab and holds one character more
IsEntryLine(l) == Len(l) >= 2 /\ l[1] \in { " ", "\t" }

\* PROGRAMMATOR_STATUS:\s*\n somewhere in the line
HasSentinel(l) ==
    \E i \in 1..Len(l) :
        /\ Occurs(l, i, S_Sentinel)
        /\ IsBlankLine(From(l, i + Len(S_Sentinel)))

\* ```\s*\n?PROGRAMMATOR_STATUS:\s*\n with the sentinel in line i
HasFencedSentinel(text, i) ==
    \/ \E k \in 1..Len(text[i]) :
          /\ Occurs(text[i], k, S_Sentinel)
          /\ IsBlankLine(From(text[i], k + Len(S_Sentinel)))
          /\ \E f \in 1..(k - 1) :
                /\ Occurs(text[i], f, L_Fence)
                /\ IsBlankLine(SubSeq(text[i], f + 3, k - 1))
    \/ /\ StartsWith(text[i], S_Sentinel)
       /\ IsBlankLine(From(text[i], Len(S_Sentinel) + 1))
       /\ \E j \in 1..(i - 1) :
             /\ \A b \in (j + 1)..(i - 1) : IsBlankLine(text[b])
             /\ \E f \in 1..Len(text[j]) :
                   /\ Occurs(text[j], f, L_Fence)
                   /\ IsBlankLine(From(text[j], f + 3))

(* the line the group starts in, for a sentinel in line i: \s* is greedy,  *)
(* so the whitespace-only lines after the sentinel are skipped as far as an *)
(* entry line follows them; 0 when the pattern does not match at i          *)
GroupStart(text, i) ==
    LET starts == { g \in (i + 1)..Len(text) :
                      /\ IsEntryLine(text[g])
                      /\ \A b \in (i + 1)..(g - 1) : IsBlankLine(text[b]) }
    IN  IF starts = {} THEN 0
        ELSE CHOOSE g \in starts : \A x \in starts : x <= g

\* the last line of the longest run of entry lines from line g on
GroupEnd(text, g) ==
    CHOOSE h \in g..Len(text) :
        /\ \A x \in g..h : IsEntryLine(text[x])
        /\ h = Len(text) \/ ~IsEntryLine(text[h + 1])

\* re.search(pattern, output) taking the last match in the text
search_pattern_LastOccurrence(text) ==
    LET at == { i \in 1..Len(text) : HasSentinel(text[i]) /\ GroupStart(text, i) # 0 }
    IN  IF at = {} THEN None
        ELSE LET i == CHOOSE x \in at : \A y \in at : y <= x
                 g == GroupStart(text, i)
             IN  Some(SubSeq(text, g, GroupEnd(text, g)))

\* re.search(pattern, output): None, or Some(match.group(1)) of the leftmost match
search_pattern(text) ==
    LET at == { i \in 1..Len(text) : HasSentinel(text[i]) /\ GroupStart(text, i) # 0 }
    IN  IF at = {} THEN None
        ELSE LET i == CHOOSE x \in at : \A y \in at : x <= y
                 g == GroupStart(text, i)
             IN  Some(SubSeq(text, g, GroupEnd(text, g)))

(* the group of pattern_code_block for the entry lines run: the run itself  *)
(* when a fence starts the line after it, else the run cut before the last  *)
(* fence that has two characters of its line before it; None without one    *)
FencedGroup(text, g, h) ==
    IF h < Len(text) /\ StartsWith(text[h + 1], L_Fence)
    THEN Some(SubSeq(text, g, h))
    ELSE LET places == UNION { { [ line |-> l, col |-> c ] : c \in 3..Len(text[l]) } :
                               l \in g..h }
             cuts == { c \in places : Occurs(text[c.line], c.col, L_Fence) }
         IN  IF cuts = {} THEN None
             ELSE LET c == CHOOSE x \in cuts :
                               \A y \in cuts :
                                   \/ y.line < x.line
                                   \/ y.line = x.line /\ y.col <= x.col
                  IN  Some(SubSeq(text, g, c.line - 1)
                           \o << SubSeq(text[c.line], 1, c.col - 1) >>)

\* re.search(pattern_code_block, output)
search_pattern_code_block(text) ==
    LET at == { i \in 1..Len(text) :
                  /\ HasFencedSentinel(text, i)
                  /\ GroupStart(text, i) # 0
                  /\ FencedGroup(text, GroupStart(text, i),
                                 GroupEnd(text, GroupStart(text, i))) # None }
    IN  IF at = {} THEN None
        ELSE LET i == CHOOSE x \in at : \A y \in at : x <= y
                 g == GroupStart(text, i)
             IN  FencedGroup(text, g, GroupEnd(text, g))

\* the place of the first ": " (or of a ":" that ends the line), else 0
ColonAt(s) ==
    LET at == { i \in 1..Len(s) : s[i] = ":" /\ (i = Len(s) \/ s[i + 1] = " ") }
    IN  IF at = {} THEN 0 ELSE CHOOSE i \in at : \A j \in at : i <= j

(* yaml.safe_load of the captured lines, for block mappings of plain        *)
(* scalars at one indentation: no content is the null document, a line that *)
(* is no `key: value` makes the document a scalar or a decode failure, a    *)
(* key written twice keeps its last value, and an empty value, ~ and null   *)
(* are null                                                                 *)
safe_load(lines) ==
    LET entries == SelectSeq(lines, LAMBDA l : ~IsBlankLine(l))
        KeyOf(l) == SubSeq(Strip(l), 1, ColonAt(Strip(l)) - 1)
        ValueOf(l) == Strip(From(Strip(l), ColonAt(Strip(l)) + 1))
        NameOf(k) == IF \E n \in DOMAIN KeyText : KeyText[n] = k
                     THEN CHOOSE n \in DOMAIN KeyText : KeyText[n] = k
                     ELSE "other"
        Last(n) == CHOOSE i \in 1..Len(entries) :
                       /\ NameOf(KeyOf(entries[i])) = n
                       /\ \A j \in (i + 1)..Len(entries) : NameOf(KeyOf(entries[j])) # n
        Value(v) == IF v \in { << >>, S_null, << "~" >> } THEN YNull ELSE YStr(v)
    IN  IF entries = << >> THEN YScalar
        ELSE IF \E i \in 1..Len(entries) : ColonAt(Strip(entries[i])) = 0
             THEN IF Len(entries) = 1 THEN YScalar ELSE YError
        ELSE YMap([ n \in { NameOf(KeyOf(entries[i])) : i \in 1..Len(entries) } |->
                      Value(ValueOf(entries[Last(n)])) ])

\* parse_response up to yaml.safe_load: the block found in the text, decoded
match_block(text) ==
    LET bare == search_pattern(text)
        fenced == search_pattern_code_block(text)
    IN  IF bare # None THEN [ block |-> "bare", doc |-> safe_load(bare[1]) ]
        ELSE IF fenced # None THEN [ block |-> "fenced", doc |-> safe_load(fenced[1]) ]
        ELSE [ block |-> "absent", doc |-> YError ]

\* an entry of a block as the prompt shows it: two spaces, key, colon, value
Entry(key, value) == << " ", " " >> \o KeyText[key] \o << ":", " " >> \o value

\* the entry lines blocks are made of
EntryLines ==
    { Entry("status", S_DONE), Entry("status", S_BLOCKED),
      Entry("phase_completed", N_A), Entry("phase_completed", S_null),
      Entry("summary", S_summary) }

\* the entries of a well-formed block: one to MaxEntries entry lines
Blocks == UNION { [ 1..n -> EntryLines ] : n \in 1..MaxEntries }

(* An output: the lines before the block, the opening fence line of a       *)
(* fenced block (None for a bare block), the entries of the block and the   *)
(* lines after it.  Before the block stands nothing, prose, or a sentinel   *)
(* with text behind it; after it nothing, prose, or a second block.         *)
Outputs ==
    [ before : { << >>, << L_Prose >>, << S_Sentinel \o << " ", "x" >>, L_Prose >> },
      fence : { None, Some(L_Fence), Some(L_Fence \o << "y", "a", "m", "l" >>) },
      block : Blocks,
      after : { << >>, << L_Blank, L_Prose >>,
                << L_Blank, S_Sentinel, Entry("status", S_CONTINUE),
                   Entry("summary", S_None) >> } ]

\* the text of an output: a fenced block is closed by a fence line
TextOf(o) ==
    o.before
    \o (IF o.fence = None THEN << >> ELSE << o.fence[1] >>)
    \o << S_Sentinel >> \o o.block
    \o (IF o.fence = None THEN << >> ELSE << L_Fence >>)
    \o o.after

ParserInit ==
    /\ pc = "parser"
    /\ output \in Outputs
    /\ called = << >>
    /\ ticketFile = << >>
    /\ ticket = parse_ticket(TicketId, << >>)
    /\ config = DefaultConfig
    /\ state = NewSafetyState
    /\ base = NewSafetyState
    /\ recorded = << >>
    /\ checked = NoCheck
    /\ stop_requested = FALSE
    /\ paused = FALSE
    /\ storeStatus = S_open
    /\ storeBody = << >>
    /\ storeNotes = << >>
    /\ notes = << >>
    /\ all_files_changed = << >>
    /\ result = NoResult
    /\ invocations = 0
    /\ snapshot = None
    /\ stopDuringWait = FALSE

\* parse_response(output) on the text of the output
CallParseResponse ==
    /\ pc = "parser"
    /\ called = << >>
    /\ called' = << [ op |-> "parse_response",
                      found |-> match_block(TextOf(output)).block,
                      status |-> parse_response(match_block(TextOf(output))) ] >>
    /\ UNCHANGED << pc, stop_requested, paused, config, state, storeStatus, storeBody,
                    storeNotes, ticket, notes, all_files_changed, output, result,
                    invocations, stopDuringWait, recorded, checked, base, ticketFile, snapshot >>

ParserNext == CallParseResponse

SpecParser == ParserInit /\ [][ParserNext]_vars

----------------------------------------------------------------------------
(* Properties of Loop.run, checked under Spec *)

\* the note persisted last
LastNote == storeNotes[Len(storeNotes)]

\* `output` is the output of the cycle that ended last
CycleEnded == invocations > 0 /\ pc \notin { "invoke", "hung" }

\* the output holds a block that decodes to a mapping
HasReport(out) == out.block # "absent" /\ out.doc.kind = "map"

\* the value of `key` in the block of an output that holds a report
Reported(out, key) == IF key \in out.doc.keys THEN out.doc.val[key] ELSE YNull

\* the names of the phases of the stored ticket that are not completed
IncompleteInStore(status, body) ==
    LET tk == get(TicketId, status, body)
    IN  { tk.phases[i].name : i \in { j \in 1..Len(tk.phases) : ~tk.phases[j].completed } }

\* the step that begins a cycle: the ticket is fetched and the loop either
\* starts the agent or leaves
CycleTopStep == pc = "pause" /\ pc' \in { "invoke", "done" }

\* the step in which an invocation returns and the rest of its cycle runs
CycleEndStep == pc = "invoke" /\ pc' \in { "while", "done" }

(* C1: the safety gate is passed before every invocation: while the agent  *)
(* runs, iteration < max_iterations, consecutive_no_changes <              *)
(* stagnation_limit and consecutive_errors < 3; the agent is invoked at    *)
(* most max_iterations times and the returned iteration count never        *)
(* exceeds max_iterations.                                                 *)
C1_GateBeforeInvoke ==
    /\ pc = "invoke" =>
         /\ state.iteration < config.max_iterations
         /\ state.consecutive_no_changes < config.stagnation_limit
         /\ state.consecutive_errors < ErrorThreshold
    /\ invocations <= config.max_iterations
    /\ state.iteration <= config.max_iterations
    /\ pc = "done" => result.iterations <= config.max_iterations

\* the agent runs in the last iteration the gate allows, one error and one
\* unchanged iteration short of the other two thresholds
C1_Witness ==
    /\ pc = "invoke"
    /\ invocations = config.max_iterations
    /\ state.consecutive_errors = ErrorThreshold - 1
    /\ state.consecutive_no_changes = config.stagnation_limit - 1

(* C3: a stop requested while run() waits in the pause loop ends the wait  *)
(* and no cycle begins afterwards: the ticket is not fetched, no prompt is *)
(* built and the agent is not invoked again.  (A cycle that invokes the    *)
(* agent has fetched the ticket and built the prompt before.)              *)
C3_StopInWaitStartsNoCycle ==
    [][stopDuringWait => invocations' = invocations]_vars

(* C4: every termination leaves a trail: when run() has returned, the last  *)
(* note persisted is the note of that exit, it carries the iteration count, *)
(* and the result holds the exit reason, the iteration count and the        *)
(* changed-files list.                                                      *)
C4_EveryExitLeavesTrail ==
    pc = "done" =>
        /\ result.exit_reason \in ExitReasons
        /\ result.iterations = state.iteration
        /\ result.total_files_changed = all_files_changed
        /\ storeNotes # << >>
        /\ LastNote.iter = state.iteration
        /\ CASE result.exit_reason = "complete" ->
                  /\ LastNote.tag = "progress"
                  /\ LastNote.kind \in { "Completed all phases in", "Completed in" }
             [] result.exit_reason \in { "max_iterations", "stagnation" } ->
                  /\ LastNote.tag = "error"
                  /\ LastNote.kind = "Safety exit after"
                  /\ LastNote.text = << result.exit_reason >>
             [] result.exit_reason = "blocked" ->
                  /\ LastNote.tag = "error"
                  /\ \/ LastNote.kind = "Safety exit after" /\ LastNote.text = << "blocked" >>
                     \/ LastNote.kind = "BLOCKED"
             [] result.exit_reason = "user_interrupt" ->
                  /\ LastNote.tag = "progress"
                  /\ LastNote.kind = "Stopped by user after"

\* the run ended on a BLOCKED report after earlier iterations
C4_Witness ==
    /\ pc = "done"
    /\ result.exit_reason = "blocked"
    /\ LastNote.kind = "BLOCKED"
    /\ result.iterations > 1
    /\ result.total_files_changed # << >>

(* C5: a cycle that begins on a stored ticket whose phases are all         *)
(* complete closes the ticket, appends the completion note and returns     *)
(* COMPLETE without invoking the agent, whatever the safety counters are.  *)
C5_CompleteBeforeGate ==
    [][(CycleTopStep /\ IncompleteInStore(storeStatus, storeBody) = {}) =>
           /\ pc' = "done"
           /\ result'.exit_reason = "complete"
           /\ storeStatus' = S_closed
           /\ storeNotes' = Append(storeNotes,
                  Note("progress", "Completed all phases in", state.iteration, << >>))
           /\ invocations' = invocations
           /\ all_phases_complete(ticket')]_vars

\* COMPLETE on re-fetch with all three thresholds reached, the last phase
\* having been checked by the agent itself and not by the loop
C5_Witness ==
    /\ pc = "done"
    /\ result.exit_reason = "complete"
    /\ LastNote.kind = "Completed all phases in"
    /\ state.iteration >= config.max_iterations
    /\ state.consecutive_no_changes >= config.stagnation_limit
    /\ state.consecutive_errors >= ErrorThreshold
    /\ \A i \in 1..Len(storeNotes) : storeNotes[i].kind # "Completed"

(* C6: a DONE report closes the ticket, appends the completion note and    *)
(* returns COMPLETE in its own cycle; a BLOCKED report appends an error    *)
(* note and returns BLOCKED with the ticket not closed; the status is      *)
(* 'closed' only when the run returned COMPLETE, and 'in_progress' after   *)
(* every other exit.                                                       *)
C6_ClosedOnlyOnComplete ==
    /\ (CycleEnded /\ HasReport(output) /\ Reported(output, "status") = YStr(S_DONE)) =>
         /\ pc = "done"
         /\ result.exit_reason = "complete"
         /\ storeStatus = S_closed
         /\ LastNote = Note("progress", "Completed in", state.iteration, << >>)
    /\ (CycleEnded /\ HasReport(output) /\ Reported(output, "status") = YStr(S_BLOCKED)) =>
         /\ pc = "done"
         /\ result.exit_reason = "blocked"
         /\ storeStatus = S_in_progress
         /\ LastNote.tag = "error"
         /\ LastNote.kind = "BLOCKED"
    /\ storeStatus = S_closed => (pc = "done" /\ result.exit_reason = "complete")
    /\ (pc = "done" /\ result.exit_reason # "complete") => storeStatus = S_in_progress

\* DONE was reported while a phase of the ticket is still unchecked
C6_Witness ==
    /\ pc = "done"
    /\ HasReport(output)
    /\ Reported(output, "status") = YStr(S_DONE)
    /\ storeStatus = S_closed
    /\ IncompleteInStore(storeStatus, storeBody) # {}

(* C7: a cycle whose output holds no report (no block, or a block that     *)
(* does not decode to a mapping) adds 1 to iteration and 1 to              *)
(* consecutive_no_changes, appends one note to the note history, leaves    *)
(* the ticket file, the lifecycle status and the changed-files list as     *)
(* they are, and goes on to the next cycle.                                *)
C7_NoReportCycle ==
    [][(CycleEndStep /\ ~HasReport(output')) =>
           /\ state'.iteration = state.iteration + 1
           /\ state'.consecutive_no_changes = state.consecutive_no_changes + 1
           /\ Len(notes') = Len(notes) + 1
           /\ SubSeq(notes', 1, Len(notes)) = notes
           /\ storeBody' = storeBody
           /\ storeStatus' = storeStatus
           /\ all_files_changed' = all_files_changed
           /\ pc' = "while"
           /\ result' = result]_vars

\* a cycle ended on a block that did not decode, after an iteration that
\* changed files
C7_Witness ==
    /\ pc = "while"
    /\ CycleEnded
    /\ output.block = "bare"
    /\ output.doc.kind = "error"
    /\ all_files_changed # << >>
    /\ state.consecutive_no_changes = 1

(* C8: a CONTINUE report whose phase_completed names an incomplete phase   *)
(* of the stored ticket leaves that phase complete in the store, appends   *)
(* a progress note, records the iteration and does not end the run.        *)
C8_ReportedPhaseIsToggled ==
    [][(/\ CycleEndStep
        /\ HasReport(output')
        /\ Reported(output', "status") = YStr(S_CONTINUE)
        /\ Reported(output', "phase_completed").t = "str"
        /\ Reported(output', "phase_completed").v[1]
               \in IncompleteInStore(storeStatus, storeBody)) =>
           /\ Reported(output', "phase_completed").v[1]
                  \notin IncompleteInStore(storeStatus', storeBody')
           /\ Len(storeNotes') = Len(storeNotes) + 1
           /\ storeNotes'[Len(storeNotes')].tag = "progress"
           /\ state'.iteration = state.iteration + 1
           /\ pc' = "while"]_vars

(* C11: iteration grows by exactly 1 in the step that ends a cycle in which *)
(* the agent was invoked, with or without a report, and stays as it is in   *)
(* every other step (pause waits, completion exit, safety exit, stop exit); *)
(* files_changed_history gets exactly one entry appended in such a step and *)
(* is otherwise left alone, so its length equals iteration in every state.  *)
C11_IterationPerCycle ==
    /\ [](/\ Len(state.files_changed_history) = state.iteration
          /\ invocations = state.iteration + (IF pc \in { "invoke", "hung" } THEN 1 ELSE 0))
    /\ [][IF CycleEndStep
          THEN /\ state'.iteration = state.iteration + 1
               /\ Len(state'.files_changed_history) = Len(state.files_changed_history) + 1
               /\ SubSeq(state'.files_changed_history, 1, Len(state.files_changed_history))
                      = state.files_changed_history
          ELSE /\ state'.iteration = state.iteration
               /\ state'.files_changed_history = state.files_changed_history]_vars

\* a safety exit after three cycles, the last without a report and an
\* earlier one with changed files, after a pause wait
C11_Witness ==
    /\ pc = "done"
    /\ result.exit_reason \in { "max_iterations", "stagnation" }
    /\ state.iteration = 3
    /\ ~HasReport(output)
    /\ state.files_changed_history[3] = << >>
    /\ \E i \in 1..2 : state.files_changed_history[i] # << >>
    /\ paused

\* the loop waits in the pause loop: the flag is set and no stop is requested
Waiting == pc \in { "pause", "sleep" } /\ paused /\ ~stop_requested

(* C12: while the pause flag is set and run() waits at the top of a cycle,  *)
(* no step fetches the ticket, starts the agent, writes the store or        *)
(* changes SafetyState, and the loop stays in the wait.  A toggle_pause     *)
(* during an invocation leaves the invocation running; the cycle of an      *)
(* invocation that returns while the flag is set ends as any other: the     *)
(* report is noted, the iteration recorded, and DONE or BLOCKED end the run. *)
C12_PauseIsCooperative ==
    [][/\ Waiting =>
            /\ pc' \in { "pause", "sleep" }
            /\ ticket' = ticket
            /\ invocations' = invocations
            /\ output' = output
            /\ storeStatus' = storeStatus
            /\ storeBody' = storeBody
            /\ storeNotes' = storeNotes
            /\ state' = state
       /\ (pc = "invoke" /\ paused' # paused) =>
            /\ pc' = "invoke"
            /\ invocations' = invocations
            /\ state' = state
            /\ storeStatus' = storeStatus
            /\ storeBody' = storeBody
            /\ storeNotes' = storeNotes
       /\ (CycleEndStep /\ paused) =>
            /\ paused'
            /\ state'.iteration = state.iteration + 1
            /\ Len(notes') = Len(notes) + 1
            /\ HasReport(output') => Len(storeNotes') > Len(storeNotes)
            /\ pc' = IF /\ HasReport(output')
                        /\ Reported(output', "status") \in { YStr(S_DONE), YStr(S_BLOCKED) }
                     THEN "done"
                     ELSE "while"]_vars

\* run() sleeps in the pause loop at the top of the third cycle, after a
\* cycle whose report was applied
C12_Witness ==
    /\ pc = "sleep"
    /\ Waiting
    /\ state.iteration = 2
    /\ invocations = 2
    /\ HasReport(output)
    /\ Len(storeNotes) = 2

(* C13: an invocation always returns to the loop: the control thread is    *)
(* never left blocked inside _invoke_claude by an agent process that does   *)
(* not finish; such a process is killed when the timeout runs out and the   *)
(* cycle ends on the synthetic BLOCKED report.                              *)
C13_InvocationAlwaysReturns ==
    /\ pc # "hung"
    /\ (/\ CycleEnded
        /\ HasReport(output)
        /\ Reported(output, "summary") = YStr(S_Timeout)) =>
          /\ pc = "done"
          /\ result.exit_reason = "blocked"

(* C14: a cycle without a report is recorded with files_changed = [] and   *)
(* error 'no_status_block', and when the cycle before it ended on a report  *)
(* with an error text, whatever the text, it leaves consecutive_errors at   *)
(* 1: the missing report starts a streak of its own.                        *)
C14_SentinelStartsNewStreak ==
    [][(CycleEndStep /\ ~HasReport(output')) =>
           /\ state'.files_changed_history = Append(state.files_changed_history, << >>)
           /\ state'.last_error = Some(S_no_status_block)
           /\ ( /\ HasReport(output)
                /\ state.iteration > 0
                /\ Reported(output, "error").t = "str" ) =>
                  state'.consecutive_errors = 1]_vars

----------------------------------------------------------------------------
(* Properties of safety.py, checked under SpecSafety *)

\* number of trailing empty lists of a changed-files history
RECURSIVE TrailingEmpty(_)
TrailingEmpty(h) ==
    IF h = << >> \/ h[Len(h)] # << >> THEN 0
    ELSE 1 + TrailingEmpty(SubSeq(h, 1, Len(h) - 1))

\* the last record_iteration call
LastRecord == recorded[Len(recorded)]

(* C2: check_safety returns MAX_ITERATIONS exactly when iteration >=       *)
(* max_iterations, STAGNATION exactly when that is not so and              *)
(* consecutive_no_changes >= stagnation_limit, BLOCKED exactly when        *)
(* neither is so and consecutive_errors >= 3, and none otherwise; it       *)
(* leaves the state as it was.                                             *)
C2_CheckSafetyOrder ==
    checked.op = "check_safety" =>
        LET st == checked.before
            maxed == st.iteration >= config.max_iterations
            stagnant == st.consecutive_no_changes >= config.stagnation_limit
            erring == st.consecutive_errors >= 3
        IN  /\ (checked.result = "max_iterations") <=> maxed
            /\ (checked.result = "stagnation") <=> (~maxed /\ stagnant)
            /\ (checked.result = "blocked") <=> (~maxed /\ ~stagnant /\ erring)
            /\ (checked.result = NoExit) <=> (~maxed /\ ~stagnant /\ ~erring)
            /\ Len(state.files_changed_history) = Len(st.files_changed_history) =>
                 state = st

\* all three thresholds are passed at once, and the stagnation and error
\* thresholds at once
C2_Witness ==
    /\ checked.op = "check_safety"
    /\ checked.result = "max_iterations"
    /\ checked.before.iteration = config.max_iterations
    /\ checked.before.consecutive_no_changes > config.stagnation_limit
    /\ checked.before.consecutive_errors > 3

(* C9: record_iteration sets consecutive_no_changes to 0 when              *)
(* files_changed is non-empty and adds exactly 1 to it otherwise; starting *)
(* from 0 it equals the number of trailing iterations recorded with an     *)
(* empty changed-files list.                                               *)
C9_NoChangesCounter ==
    /\ recorded # << >> =>
         state.consecutive_no_changes =
             IF LastRecord.files # << >>
             THEN 0
             ELSE LastRecord.before.consecutive_no_changes + 1
    /\ base.consecutive_no_changes = 0 =>
         state.consecutive_no_changes = TrailingEmpty(state.files_changed_history)

\* two unchanged iterations in a row after one that changed files and
\* reported an error
C9_Witness ==
    /\ Len(recorded) >= 3
    /\ state.consecutive_no_changes = 2
    /\ recorded[Len(recorded) - 2].files # << >>
    /\ recorded[Len(recorded) - 2].error # None

\* the error text of a call, when it reports one
HasError(c) == c.error # None /\ c.error[1] # << >>

(* C10: a recorded iteration whose non-empty error equals the previous     *)
(* iteration's error adds 1 to consecutive_errors, one with another        *)
(* non-empty error sets it to 1, one with no error sets it to 0 and        *)
(* clears last_error; three iterations in a row with the same error give   *)
(* consecutive_errors = 3 on a fresh state, and check_safety then returns  *)
(* BLOCKED unless an earlier threshold is reached.                         *)
C10_ErrorStreak ==
    /\ recorded # << >> =>
         LET c == LastRecord
         IN  IF HasError(c)
             THEN /\ state.last_error = c.error
                  /\ state.consecutive_errors =
                         IF c.error = c.before.last_error
                         THEN c.before.consecutive_errors + 1
                         ELSE 1
             ELSE /\ state.last_error = None
                  /\ state.consecutive_errors = 0
    /\ ( /\ Len(recorded) >= 3
         /\ HasError(LastRecord)
         /\ recorded[Len(recorded) - 1].error = LastRecord.error
         /\ recorded[Len(recorded) - 2].error = LastRecord.error ) =>
           /\ state.consecutive_errors >= 3
           /\ (base = NewSafetyState /\ Len(recorded) = 3) => state.consecutive_errors = 3
           /\ ( /\ checked.op = "check_safety"
                /\ checked.before = state
                /\ state.iteration < config.max_iterations
                /\ state.consecutive_no_changes < config.stagnation_limit ) =>
                  checked.result = "blocked"

\* three iterations with error X that changed files, then check_safety
C10_Witness ==
    /\ Len(recorded) = 3
    /\ \A i \in 1..3 : recorded[i].error = Some(E_X) /\ recorded[i].files # << >>
    /\ state.consecutive_errors = 3
    /\ checked.op = "check_safety"
    /\ checked.before = state
    /\ checked.result = "blocked"

\* the number of cycles without a report at the end of the note history: every
\* cycle that invoked the agent added one entry to it
RECURSIVE TrailingNoReport(_)
TrailingNoReport(ns) ==
    IF ns = << >> \/ ns[Len(ns)].kind # "No status block returned" THEN 0
    ELSE 1 + TrailingNoReport(SubSeq(ns, 1, Len(ns) - 1))

\* min(stagnation_limit, 3)
NoReportLimit(cfg) ==
    IF cfg.stagnation_limit < ErrorThreshold THEN cfg.stagnation_limit ELSE ErrorThreshold

C29_EmptyChecklistCompletes ==
    /\ []((pc # "start" /\ ticket.phases = << >>) =>
            /\ current_phase(ticket) = None
            /\ all_phases_complete(ticket)
            /\ invocations = 0
            /\ state = NewSafetyState)
    /\ [][(CycleTopStep /\ ticket'.phases = << >>) =>
            /\ pc' = "done"
            /\ result' = LoopResult("complete", NewSafetyState, << >>)
            /\ result'.iterations = 0
            /\ storeStatus' = S_closed
            /\ storeNotes' = add_note(storeNotes,
                                      Note("progress", "Completed all phases in", 0, << >>))
            /\ invocations' = 0]_vars

\* a run on a ticket without a checklist returned COMPLETE, under max_iterations 0
C29_Witness ==
    /\ pc = "done"
    /\ ticket.phases = << >>
    /\ config.max_iterations = 0
    /\ result = LoopResult("complete", NewSafetyState, << >>)
    /\ storeStatus = S_closed
    /\ Len(storeNotes) = 1
    /\ invocations = 0

(* C23: the changed-files list of the run result holds each path at most   *)
(* once, however many cycles reported that path.                            *)
C23_ResultFilesDistinct ==
    pc = "done" =>
        \A i, j \in 1..Len(result.total_files_changed) :
            result.total_files_changed[i] = result.total_files_changed[j] => i = j

(* C25: the snapshot on_state_change receives is current: at the end of a   *)
(* cycle whose report toggled a phase in the store, the ticket handed to    *)
(* the sink has the phases of the stored ticket, and a ticket re-fetched at *)
(* the start of a cycle that differs from the ticket of the last snapshot   *)
(* is handed to the sink in that step.                                      *)
C25_SnapshotIsCurrent ==
    [][ /\ (CycleEndStep /\ HasReport(output') /\ storeBody' # storeBody) =>
            snapshot'[1].ticket.phases =
                get(TicketId, storeStatus', storeBody').phases
        /\ (CycleTopStep /\ snapshot # None /\ ticket' # snapshot[1].ticket) =>
            /\ snapshot' # None
            /\ snapshot'[1].ticket = ticket' ]_vars

----------------------------------------------------------------------------
(* Properties of ticket_client.py, checked under SpecTicket *)

\* the positions of the phases of a Ticket that are not completed
Incomplete(t) == { i \in 1..Len(t.phases) : ~t.phases[i].completed }

(* C15: current_phase is the first phase in sequence order whose completed  *)
(* flag is false, and None exactly when all_phases_complete is true;        *)
(* all_phases_complete is true exactly when no phase is incomplete.         *)
C15_CurrentPhaseIsFirstIncomplete ==
    \A k \in 1..Len(called) :
        called[k].op = "properties" =>
            LET t == called[k].of
                cur == called[k].current_phase
            IN  /\ called[k].all_phases_complete <=> (Incomplete(t) = {})
                /\ (cur = None) <=> called[k].all_phases_complete
                /\ cur # None =>
                      \E i \in Incomplete(t) :
                          /\ cur = Some(t.phases[i])
                          /\ \A j \in 1..(i - 1) : t.phases[j].completed

\* a parsed ticket whose first phase is complete and whose second and third
\* are not
C15_Witness ==
    /\ Len(called) = 2
    /\ called[1].op = "_parse_ticket"
    /\ called[2].op = "properties"
    /\ Len(ticket.phases) = 3
    /\ Incomplete(ticket) = { 2, 3 }
    /\ called[2].current_phase = Some(ticket.phases[2])
    /\ ~called[2].all_phases_complete

\* the lines `---` of a text
Markers(lines) == { i \in 1..Len(lines) : Strip(lines[i]) = L_Marker }

\* line i lies inside the frontmatter: exactly one `---` line precedes it
InFrontmatter(lines, i) ==
    /\ i \notin Markers(lines)
    /\ Cardinality({ m \in Markers(lines) : m < i }) = 1

\* a checklist line `- [ ] name` or `- [x] name`
IsChecklistLine(line) ==
    /\ Len(line) > Len(Box(" "))
    /\ StartsWith(line, Box(" ")) \/ StartsWith(line, Box("x"))

\* the Phase a checklist line stands for
PhaseOf(line) ==
    [ name |-> Strip(From(line, Len(Box(" ")) + 1)),
      completed |-> StartsWith(line, Box("x")) ]

\* the checklist lines of a text outside its frontmatter, in order
RECURSIVE ChecklistFrom(_, _)
ChecklistFrom(lines, i) ==
    IF i > Len(lines) THEN << >>
    ELSE IF ~InFrontmatter(lines, i) /\ IsChecklistLine(lines[i])
    THEN << PhaseOf(lines[i]) >> \o ChecklistFrom(lines, i + 1)
    ELSE ChecklistFrom(lines, i + 1)

\* the `status:` lines inside the frontmatter of a text
StatusLines(lines) ==
    { i \in 1..Len(lines) : InFrontmatter(lines, i) /\ StartsWith(lines[i], L_StatusKey) }

(* C16: the parsed ticket's status is the value of the `status:` line       *)
(* inside the frontmatter (the last one when there are several), 'open'     *)
(* when there is none; its phases are the checklist lines outside the       *)
(* frontmatter, one Phase each, in the order of the text, completed exactly *)
(* for `[x]`; lines inside the frontmatter give no phase.                   *)
C16_ParsedStatusAndPhases ==
    (called # << >> /\ called[1].op = "_parse_ticket") =>
        LET t == called[1].of
            st == StatusLines(ticketFile)
        IN  /\ t.phases = ChecklistFrom(ticketFile, 1)
            /\ t.status =
                  IF st = {} THEN S_open
                  ELSE Strip(AfterColon(ticketFile[CHOOSE i \in st : \A j \in st : j <= i]))
            /\ t.id = TicketId

\* a text whose frontmatter holds two status lines and a checklist line,
\* and whose body holds a checked phase, a `---` line and an unchecked phase
C16_Witness ==
    /\ called # << >>
    /\ called[1].op = "_parse_ticket"
    /\ ticketFile = << L_Marker, L_StatusInProgress, Unchecked(N_A), L_StatusClosed, L_Marker,
                       Checked(N_B), L_Marker, L_SpacedB >>
    /\ ticket.status = S_closed
    /\ ticket.phases = << [ name |-> N_B, completed |-> TRUE ],
                          [ name |-> N_B, completed |-> FALSE ] >>

\* the heading lines of a text outside its frontmatter
Headings(lines) ==
    { i \in 1..Len(lines) :
        /\ i \notin Markers(lines)
        /\ ~InFrontmatter(lines, i)
        /\ StartsWith(lines[i], L_Heading) }

\* the lines from line i on that are no frontmatter line, none of the two
\* marker lines around the frontmatter, and not line t
RECURSIVE BodyFrom(_, _, _)
BodyFrom(lines, i, t) ==
    IF i > Len(lines) THEN << >>
    ELSE IF \/ InFrontmatter(lines, i)
            \/ i = t
            \/ i \in Markers(lines) /\ Cardinality({ m \in Markers(lines) : m < i }) < 2
    THEN BodyFrom(lines, i + 1, t)
    ELSE << lines[i] >> \o BodyFrom(lines, i + 1, t)

(* C26: the title of the parsed ticket is the text of the first heading     *)
(* line outside the frontmatter, and later heading lines do not replace it; *)
(* the body holds, in order, every line that is neither inside the          *)
(* frontmatter, nor a marker line of the frontmatter, nor the title line:   *)
(* later heading lines, prose and marker lines after the frontmatter        *)
(* (texts that neither begin nor end with a blank line).                    *)
C26_FirstHeadingIsTitle ==
    ( /\ called # << >>
      /\ called[1].op = "_parse_ticket"
      /\ ticketFile # << >>
      /\ Strip(ticketFile[1]) # << >>
      /\ Strip(ticketFile[Len(ticketFile)]) # << >> ) =>
        LET t == called[1].of
            heads == Headings(ticketFile)
            first == IF heads = {} THEN 0
                     ELSE CHOOSE i \in heads : \A j \in heads : i <= j
        IN  /\ t.title = IF heads = {} THEN << >> ELSE Strip(From(ticketFile[first], 3))
            /\ t.body = BodyFrom(ticketFile, 1, first)

----------------------------------------------------------------------------
(* Properties of update_phase, checked under SpecStore *)

\* the last update_phase call
LastUpdate == called[Len(called)]

\* the lines of a file that update_phase(name, completed) is to toggle: the
\* checklist lines in the opposite state whose phase name is `name`
Targets(lines, name, completed) ==
    { i \in 1..Len(lines) :
        /\ IsChecklistLine(lines[i])
        /\ PhaseOf(lines[i]) = [ name |-> name, completed |-> ~completed ] }

\* a checklist line with its box set to the given state
WithBox(line, completed) == [ line EXCEPT ![4] = IF completed THEN "x" ELSE " " ]

(* C17: when a line of the file is in the opposite state with the phase     *)
(* name given, update_phase changes the box of the first such line and      *)
(* leaves every other line as it was, later lines with the same name and    *)
(* lines whose name begins with the name included.                          *)
C17_TogglesFirstExactMatch ==
    called # << >> =>
        LET c == LastUpdate
            tg == Targets(c.before, c.name, c.completed)
            first == CHOOSE i \in tg : \A j \in tg : i <= j
        IN  tg # {} =>
              ticketFile = [ c.before EXCEPT ![first] = WithBox(c.before[first], c.completed) ]

(* C18: when no line of the file is in the opposite state with the phase    *)
(* name given, update_phase leaves the file as it was; update_phase(name,   *)
(* True) called twice leaves the file as the first call left it.            *)
C18_NoMatchNoChange ==
    called # << >> =>
        LET c == LastUpdate
        IN  /\ Targets(c.before, c.name, c.completed) = {} => ticketFile = c.before
            /\ ( /\ Len(called) >= 2
                 /\ c.completed
                 /\ called[Len(called) - 1].completed
                 /\ called[Len(called) - 1].name = c.name ) =>
                   ticketFile = c.before

----------------------------------------------------------------------------
(* Properties of parse_response as the loop applies it, checked under       *)
(* SpecReports                                                              *)

\* the block of the output holds `key`
HasKey(out, key) == key \in out.doc.keys

\* the entry record_iteration appended last
LastHistory(st) == st.files_changed_history[Len(st.files_changed_history)]

(* C19: the files_changed of a report reach the loop normalized: null and   *)
(* an absent key as the empty sequence, a bare string as the one-element    *)
(* sequence holding it, a list as it is, in its order; a report with null   *)
(* or absent files_changed is recorded as an iteration without changes.     *)
C19_FilesChangedNormalized ==
    [][(CycleEndStep /\ HasReport(output')) =>
           LET present == HasKey(output', "files_changed")
               raw == output'.doc.val["files_changed"]
               files == LastHistory(state')
           IN  /\ (~present \/ raw.t = "null") =>
                     /\ files = << >>
                     /\ state'.consecutive_no_changes = state.consecutive_no_changes + 1
                     /\ all_files_changed' = all_files_changed
               /\ (present /\ raw.t = "str") =>
                     /\ files = << raw.v[1] >>
                     /\ state'.consecutive_no_changes = 0
               /\ (present /\ raw.t = "list") => files = raw.v
               /\ all_files_changed' = all_files_changed \o files]_vars

\* a report with a list of two files, then a report without the key
C19_Witness ==
    /\ pc = "while"
    /\ CycleEnded
    /\ HasReport(output)
    /\ ~HasKey(output, "files_changed")
    /\ state.files_changed_history = << << F_b, F_a >>, << >> >>
    /\ state.consecutive_no_changes = 1
    /\ all_files_changed = << F_b, F_a >>

(* C20: a report whose phase_completed is null, the text "null" or absent   *)
(* toggles no phase: the ticket file stays as it is, and the note added to  *)
(* the note history and to the store is the progress note with the summary, *)
(* not a completion note.                                                   *)
C20_NoPhaseNormalized ==
    [][( /\ CycleEndStep
         /\ HasReport(output')
         /\ \/ ~HasKey(output', "phase_completed")
            \/ output'.doc.val["phase_completed"].t = "null"
            \/ output'.doc.val["phase_completed"] = YStr(S_null) ) =>
           LET text == IF HasKey(output', "summary")
                       THEN output'.doc.val["summary"].v[1]
                       ELSE << >>
           IN  /\ storeBody' = storeBody
               /\ notes' = Append(notes, Note("", "summary", state.iteration, text))
               /\ Len(storeNotes') > Len(storeNotes)
               /\ storeNotes'[Len(storeNotes) + 1] =
                      Note("progress", "summary", state.iteration, text)]_vars

\* the report named the phase "null" of a ticket that has an unchecked
\* phase of that name
C20_Witness ==
    /\ pc = "while"
    /\ CycleEnded
    /\ HasReport(output)
    /\ HasKey(output, "phase_completed")
    /\ output.doc.val["phase_completed"] = YStr(S_null)
    /\ S_null \in IncompleteInStore(storeStatus, storeBody)
    /\ notes[Len(notes)].kind = "summary"

(* C21: a report whose status is no value of Status, or whose block holds   *)
(* no status key, is applied as a CONTINUE report: the cycle is not taken   *)
(* as one without a report, the run does not end in it, and the lifecycle   *)
(* status stays as it is.                                                   *)
C21_UnknownStatusContinues ==
    [][( /\ CycleEndStep
         /\ HasReport(output')
         /\ \/ ~HasKey(output', "status")
            \/ output'.doc.val["status"] \notin
                   { YStr(S_CONTINUE), YStr(S_DONE), YStr(S_BLOCKED) } ) =>
           /\ pc' = "while"
           /\ result' = result
           /\ storeStatus' = storeStatus
           /\ state'.iteration = state.iteration + 1
           /\ state'.last_error # Some(S_no_status_block)
           /\ notes'[Len(notes')].kind # "No status block returned"
           /\ Len(storeNotes') = Len(storeNotes) + 1
           /\ storeNotes'[Len(storeNotes')].tag = "progress"]_vars

\* a cycle ended on a report with status "done" while a phase is unchecked
C21_Witness ==
    /\ pc = "while"
    /\ CycleEnded
    /\ HasReport(output)
    /\ HasKey(output, "status")
    /\ output.doc.val["status"] = YStr(S_done)
    /\ state.iteration = 2
    /\ storeStatus = S_in_progress
    /\ IncompleteInStore(storeStatus, storeBody) # {}

----------------------------------------------------------------------------
(* Properties of parse_response on output texts, checked under SpecParser *)

(* C22: a well-formed block gives the same field values written bare and    *)
(* written inside a fenced code block, whatever stands around it, and a     *)
(* text with several blocks gives the values of the first block that        *)
(* matches: the parsed report of every output is the report of its block    *)
(* standing alone and bare.  The pattern without the fence is tried first   *)
(* and finds the block of a fenced text too; the pattern with the fence     *)
(* would capture the same lines.                                            *)
C22_FencedEqualsBareFirstBlock ==
    called # << >> =>
        /\ called[1].status # None
        /\ called[1].status =
               parse_response(match_block(TextOf([ output EXCEPT !.fence = None ])))
        /\ called[1].status =
               parse_response(match_block(<< S_Sentinel >> \o output.block))
        /\ called[1].found = "bare"
        /\ output.fence = Some(L_Fence) =>
              /\ search_pattern_code_block(TextOf(output)) = Some(output.block)
              /\ search_pattern(TextOf(output)) = Some(output.block)

\* a fenced block after a sentinel that opens no block and before a second block, parsed
C22_Witness ==
    /\ called # << >>
    /\ output.fence = Some(L_Fence)
    /\ Len(output.before) = 2
    /\ Len(output.after) = 4
    /\ output.block = << Entry("phase_completed", N_A), Entry("status", S_DONE) >>
    /\ called[1].status = Some([ phase_completed |-> Some(N_A), status |-> "DONE",
                                 files_changed |-> << >>, summary |-> Some(<< >>),
                                 error |-> None ])

----------------------------------------------------------------------------
(* Properties of Loop.run on a failing ticket store, checked under          *)
(* SpecFailing                                                              *)

(* C24: a failing store command ends the run at the call: run() returns no  *)
(* result, the failed command has written nothing (a failed add-note leaves *)
(* no such note, a failed status leaves the status as it was, a failed show *)
(* leaves the store untouched), and afterwards no cycle begins, the agent   *)
(* is not invoked and the store is not written.                             *)
C24_StoreFailureIsFatal ==
    [][ /\ called' # called =>
            /\ pc' = "raised"
            /\ result' = NoResult
            /\ invocations' = invocations
            /\ called'[1].op = "show" =>
                   UNCHANGED << storeStatus, storeBody, storeNotes, state, ticket >>
            /\ called'[1].op = "status" => storeStatus' = storeStatus
            /\ called'[1].op = "add-note" =>
                   /\ \A i \in 1..Len(storeNotes') : storeNotes'[i] # called'[1].note[1]
                   /\ Len(storeNotes') <= Len(storeNotes) + 1
        /\ pc = "raised" =>
            /\ pc' = "raised"
            /\ UNCHANGED << result, invocations, storeStatus, storeBody, storeNotes,
                            state, ticket, notes, all_files_changed, called >> ]_vars

\* a DONE report was applied and recorded, the ticket closed, and the add-note
\* of the completion note failed: the store shows a closed ticket, no result
C24_Witness ==
    /\ pc = "raised"
    /\ called # << >>
    /\ called[1].op = "add-note"
    /\ called[1].note[1].kind = "Completed in"
    /\ storeStatus = S_closed
    /\ state.iteration = 2
    /\ result = NoResult
    /\ stop_requested

----------------------------------------------------------------------------
(* Properties of Loop.run as a fair process, checked under SpecLive *)

(* C27: run() eventually returns unless the pause is held: again and again  *)
(* either run() has returned or the pause flag is set with no stop          *)
(* requested, so a run in which the flag is, from some point on, clear or   *)
(* overridden by a stop request does return.  The result it returns carries *)
(* one ExitReason; and after it has returned the result stays, no cycle     *)
(* runs, the agent is not invoked and the store is not written.             *)
C27_RunTerminates ==
    /\ []<>(pc = "done" \/ (paused /\ ~stop_requested))
    /\ [](pc = "done" <=> result # NoResult)
    /\ [](pc = "done" => result.exit_reason \in ExitReasons)
    /\ [][pc = "done" =>
            /\ pc' = "done"
            /\ UNCHANGED << result, invocations, state, ticket, storeStatus, storeBody,
                            storeNotes, notes, all_files_changed >>]_vars

\* run() has returned at the iteration limit after a wait in the pause loop
C27_Witness ==
    /\ pc = "done"
    /\ result.exit_reason = "max_iterations"
    /\ result.iterations = MaxLiveIterations
    /\ invocations = MaxLiveIterations
    /\ paused

----------------------------------------------------------------------------
(* Properties of Loop.run on reports that name a phase, checked under Spec *)

\* some line of the ticket file holds the unchecked checklist text of the name:
\* the text update_phase looks for
MatchesUnchecked(body, name) ==
    \E i \in 1..Len(body) : \E k \in 1..Len(body[i]) : Occurs(body[i], k, Unchecked(name))

====
